---- MODULE Spec2Model ----
(***************************************************************************)
(* Indexing-and-retrieval pipeline of the intelligent coding assistant:    *)
(* the chunker (CodeService._chunk_code), the embedding gateway            *)
(* (EmbeddingService), the vector index (VectorService) and project        *)
(* indexing (CodeService.index_project).                                   *)
(*                                                                         *)
(* Text is a sequence of one-character strings, so that split, join and    *)
(* strip are computed character by character as Python computes them.      *)
(***************************************************************************)
EXTENDS Integers, Sequences, FiniteSets, TLC

VARIABLES
    content,        \* _chunk_code: the file content handed to the chunker
    chunks,         \* _chunk_code: the returned list of chunks
    cpc,            \* chunker position: "input" | "chunked"
    local_model,    \* EmbeddingService.local_model is set (TRUE) or None (FALSE)
    openai_client,  \* EmbeddingService.openai_client is set (TRUE) or None (FALSE)
    op,             \* the embedding call in progress and its arguments
    epc,            \* its position: "idle" | "single" | "gathering" |
                    \*   "local_batch" | "returned" | "raised"
    batch_lo,       \* embed_texts: index of the first text of the current sub-batch
    task,           \* per text: the _embed_with_openai / _embed_with_local_model call
    finished,       \* task indices in the order the calls completed
    embeddings,     \* embed_texts: the accumulated list
    result,         \* the value returned
    error,          \* the exception raised
    calls,          \* provider calls issued so far, per provider
    store,          \* the vector store: collection name -> size and points
    uuid_count,     \* number of uuid4 values drawn so far
    ens,            \* per caller: the ensure_collection call in progress
    vop,            \* the last VectorService call made directly, and its result
    files,          \* index_project: the files rglob enumerates
    ipc,            \* index_project position
    fi,             \* index of the file being processed
    ci,             \* index of the chunk being embedded
    file_chunks,    \* chunks of the file being processed
    vectors,        \* accumulated embeddings
    payloads,       \* accumulated payloads
    exists_seen,    \* what collection_exists answered in ensure_collection
    ensured,        \* what ensure_collection returned (index_project drops it)
    visited,        \* files whose open() was attempted in this run
    skipped,        \* files whose processing raised and was skipped in this run
    upserts,        \* add_vectors calls issued in this run
    runs,           \* finished runs: return value and store before/after
    trace,          \* the calls this index_project run has made so far, in order
    ctx,            \* _get_relevant_context: the call in progress and its result
    sim,            \* the last find_most_similar call and its result
    active_connections, \* WebSocketManager.active_connections: the dict's entries
    conn,           \* per socket: its websocket_endpoint handler and its peer
    accepted,       \* the sockets in the order connect() registered them
    bc,             \* the broadcast call in progress
    last_send       \* the last send_personal_message call and its outcome

chunkVars == <<content, chunks, cpc>>

embedVars == <<local_model, openai_client, op, epc, batch_lo, task, finished,
               embeddings, result, error, calls>>

storeVars == <<store, uuid_count>>

indexVars == <<files, ipc, fi, ci, file_chunks, vectors, payloads, exists_seen,
               ensured, visited, skipped, upserts, runs, trace>>

wsVars == <<active_connections, conn, accepted, bc, last_send>>

nonEmbedVars == <<chunkVars, storeVars, ens, vop, indexVars, ctx, sim, wsVars>>

vars == <<chunkVars, embedVars, storeVars, ens, vop, indexVars, ctx, sim, wsVars>>

(***************************************************************************)
(* Text helpers (Python str methods)                                       *)
(***************************************************************************)
NL == "\n"

\* "def " and "class " as character sequences
DefPrefix == <<"d", "e", "f", " ">>
ClassPrefix == <<"c", "l", "a", "s", "s", " ">>

\* characters str.strip() removes that occur in the modelled alphabet
Whitespace == {" ", NL}

RECURSIVE SplitRange(_, _, _)
\* the lines of s[lo..hi]: the halves are split, and the last line of the left
\* half continues in the first line of the right half
SplitRange(s, lo, hi) ==
    IF lo > hi THEN << <<>> >>
    ELSE IF lo = hi THEN (IF s[lo] = NL THEN << <<>>, <<>> >> ELSE << <<s[lo]>> >>)
    ELSE LET mid == (lo + hi) \div 2
             L == SplitRange(s, lo, mid)
             R == SplitRange(s, mid + 1, hi)
         IN  SubSeq(L, 1, Len(L) - 1) \o << L[Len(L)] \o R[1] >> \o SubSeq(R, 2, Len(R))

\* str.split('\n')
SplitLines(s) == SplitRange(s, 1, Len(s))

RECURSIVE JoinRange(_, _, _)
JoinRange(parts, lo, hi) ==
    IF lo > hi THEN <<>>
    ELSE IF lo = hi THEN parts[lo]
    ELSE LET mid == (lo + hi) \div 2
         IN  JoinRange(parts, lo, mid) \o <<NL>> \o JoinRange(parts, mid + 1, hi)

\* '\n'.join(parts)
JoinLines(parts) == JoinRange(parts, 1, Len(parts))

RECURSIVE LStrip(_)
LStrip(s) ==
    IF s # <<>> /\ Head(s) \in Whitespace THEN LStrip(Tail(s)) ELSE s

RECURSIVE RStrip(_)
RStrip(s) ==
    IF s # <<>> /\ s[Len(s)] \in Whitespace THEN RStrip(SubSeq(s, 1, Len(s) - 1)) ELSE s

\* str.strip()
Strip(s) == RStrip(LStrip(s))

\* str.startswith(prefix)
StartsWith(s, prefix) ==
    /\ Len(s) >= Len(prefix)
    /\ SubSeq(s, 1, Len(prefix)) = prefix

(***************************************************************************)
(* CodeService._chunk_code                                                 *)
(***************************************************************************)
MaxChunkLines == 50
MinChunkLines == 10

IsDefLine(line) ==
    StartsWith(Strip(line), DefPrefix) \/ StartsWith(Strip(line), ClassPrefix)

SplitHere_AtMinimum(line, current_chunk) ==
    \/ Len(current_chunk) >= MaxChunkLines
    \/ (IsDefLine(line) /\ Len(current_chunk) >= MinChunkLines)

SplitHere_Exceeds(line, current_chunk) ==
    \/ Len(current_chunk) > MaxChunkLines
    \/ (IsDefLine(line) /\ Len(current_chunk) > MinChunkLines)

\* the split condition, evaluated after the line was appended to the buffer
SplitHere(line, current_chunk) ==
    \/ Len(current_chunk) >= MaxChunkLines
    \/ (IsDefLine(line) /\ Len(current_chunk) > MinChunkLines)

MakeChunk_ZeroIndexed(current_chunk, current_start, end_line) ==
    [text |-> JoinLines(current_chunk), type |-> "code_block",
     start_line |-> current_start - 1, end_line |-> end_line - 1]

MakeChunk(current_chunk, current_start, end_line) ==
    [text |-> JoinLines(current_chunk), type |-> "code_block",
     start_line |-> current_start, end_line |-> end_line]

RECURSIVE ChunkLoop_SplitBefore(_, _, _, _, _)
ChunkLoop_SplitBefore(lines, i, acc, current_chunk, current_start) ==
    IF i > Len(lines)
    THEN [chunks |-> acc, current_chunk |-> current_chunk,
          current_start |-> current_start]
    ELSE LET buffered == Append(current_chunk, lines[i])
         IN  IF SplitHere(lines[i], buffered)
             THEN ChunkLoop_SplitBefore(lines, i + 1,
                            Append(acc, MakeChunk(current_chunk, current_start, i - 1)),
                            <<lines[i]>>, i)
             ELSE ChunkLoop_SplitBefore(lines, i + 1, acc, buffered, current_start)

RECURSIVE ChunkLoop(_, _, _, _, _)
\* the for loop over enumerate(lines, 1)
ChunkLoop(lines, i, acc, current_chunk, current_start) ==
    IF i > Len(lines)
    THEN [chunks |-> acc, current_chunk |-> current_chunk,
          current_start |-> current_start]
    ELSE LET buffered == Append(current_chunk, lines[i])
         IN  IF SplitHere(lines[i], buffered)
             THEN ChunkLoop(lines, i + 1,
                            Append(acc, MakeChunk(buffered, current_start, i)),
                            <<>>, i + 1)
             ELSE ChunkLoop(lines, i + 1, acc, buffered, current_start)

FlushRemaining_Dropped(acc, current_chunk, current_start, nlines) == acc

\* "Add remaining chunk": a non-empty buffer becomes the final chunk
FlushRemaining(acc, current_chunk, current_start, nlines) ==
    IF current_chunk # <<>>
    THEN Append(acc, MakeChunk(current_chunk, current_start, nlines))
    ELSE acc

_chunk_code(text) ==
    LET lines == SplitLines(text)
        loop == ChunkLoop(lines, 1, <<>>, <<>>, 1)
    IN  FlushRemaining(loop.chunks, loop.current_chunk, loop.current_start,
                       Len(lines))

(***************************************************************************)
(* Chunker inputs                                                          *)
(***************************************************************************)
MaxShortLen == 4
MaxLines == 62

ShortAlphabet == {NL, "x", " "}

RECURSIVE SeqsUpTo(_, _)
SeqsUpTo(S, n) ==
    IF n = 0 THEN {<<>>}
    ELSE LET shorter == SeqsUpTo(S, n - 1)
         IN  shorter \cup {Append(s, c) : s \in {t \in shorter : Len(t) = n - 1}, c \in S}

ShortContents == SeqsUpTo(ShortAlphabet, MaxShortLen)

\* the lines a long file is made of
PlainLine == <<"x">>
DefLines == { DefPrefix \o <<"f">>,
              <<" ">> \o DefPrefix \o <<"f">>,
              ClassPrefix \o <<"C">>,
              <<>> }

\* n lines, all plain but line p (when 1 <= p <= n) and line q
LongContent(n, p, q, special) ==
    JoinLines([j \in 1..n |-> IF j = p \/ j = q THEN special ELSE PlainLine])

LongContents ==
    { LongContent(n, p, p + gap, special) :
        n \in 1..MaxLines, p \in 0..MaxLines,
        gap \in {0, MinChunkLines + 1}, special \in DefLines }

\* plain files of two full chunks, and of two full chunks and one line more
FullBlockContents ==
    { LongContent(n, 0, 0, <<>>) : n \in {2 * MaxChunkLines, 2 * MaxChunkLines + 1} }

Contents == ShortContents \cup LongContents \cup FullBlockContents

(***************************************************************************)
(* EmbeddingService                                                        *)
(***************************************************************************)
OpenAISmallDim == 1536
OpenAILargeDim == 3072
LocalDefaultDim == 384

\* the model argument: None, or a model name
Models == {"None", "text-embedding-3-large"}

\* model = model or "text-embedding-3-small"
ModelOrDefault(model) ==
    IF model = "None" THEN "text-embedding-3-small" ELSE model

\* response.data[0].embedding: the provider's vector for (model, text)
RemoteVec(text, model) ==
    [by |-> ModelOrDefault(model), text |-> text,
     dim |-> IF ModelOrDefault(model) = "text-embedding-3-large"
             THEN OpenAILargeDim ELSE OpenAISmallDim]

\* self.local_model.encode(text).tolist()
LocalVec(text) == [by |-> "local", text |-> text, dim |-> LocalDefaultDim]

NoVec == [by |-> "none", text |-> "", dim |-> 0]

NewTask == [state |-> "new", fellback |-> FALSE, vec |-> NoVec]

NoOp == [kind |-> "none", texts |-> <<>>, model |-> "None",
         use_openai |-> FALSE, batch_size |-> 1]

Min(a, b) == IF a <= b THEN a ELSE b

UseRemote_FlagOnly(use_openai) == use_openai

\* "if use_openai and self.openai_client"
UseRemote(use_openai) == use_openai /\ openai_client

BatchHi_OneMore(lo, texts, batch_size) == Min(lo + batch_size, Len(texts))

\* range(i, i + batch_size) clipped to the list: texts[i:i + batch_size]
BatchHi(lo, texts, batch_size) == Min(lo + batch_size - 1, Len(texts))

StartRemote_All(tk, lo, hi) ==
    [i \in DOMAIN tk |->
        IF lo <= i
        THEN [state |-> "remote", fellback |-> FALSE, vec |-> NoVec]
        ELSE tk[i]]

\* the coroutines handed to asyncio.gather start their provider call
StartRemote(tk, lo, hi) ==
    [i \in DOMAIN tk |->
        IF lo <= i /\ i <= hi
        THEN [state |-> "remote", fellback |-> FALSE, vec |-> NoVec]
        ELSE tk[i]]

GatherResults_CompletionOrder(tk, lo, hi, fin) ==
    LET done == SelectSeq(fin, LAMBDA i : lo <= i /\ i <= hi)
    IN  [k \in 1..Len(done) |-> tk[done[k]].vec]

\* asyncio.gather: the results in the order of the awaitables
GatherResults(tk, lo, hi, fin) ==
    [k \in 1..(hi - lo + 1) |-> tk[lo + k - 1].vec]

EmbedQuiet ==
    /\ op = NoOp
    /\ epc = "idle"
    /\ batch_lo = 0
    /\ task = <<>>
    /\ finished = <<>>
    /\ embeddings = <<>>
    /\ result = <<>>
    /\ error = "none"
    /\ calls = [remote |-> 0, local |-> 0]

\* embed_text(text, model, use_openai)
EmbedText(text, model, use_openai) ==
    /\ epc = "idle"
    /\ op' = [kind |-> "embed_text", texts |-> <<text>>, model |-> model,
              use_openai |-> use_openai, batch_size |-> 1]
    /\ IF UseRemote(use_openai)
       THEN /\ epc' = "single"
            /\ task' = StartRemote(<<NewTask>>, 1, 1)
            /\ calls' = [calls EXCEPT !.remote = @ + 1]
            /\ UNCHANGED error
       ELSE IF ~local_model
       THEN /\ epc' = "raised"
            /\ error' = "ValueError"
            /\ task' = <<NewTask>>
            /\ UNCHANGED calls
       ELSE /\ epc' = "single"
            /\ task' = <<[state |-> "local", fellback |-> FALSE, vec |-> NoVec]>>
            /\ calls' = [calls EXCEPT !.local = @ + 1]
            /\ UNCHANGED error
    /\ UNCHANGED <<local_model, openai_client, batch_lo, finished, embeddings,
                   result, nonEmbedVars>>

\* embed_texts(texts, model, use_openai, batch_size)
EmbedTexts(texts, model, use_openai, batch_size) ==
    /\ epc = "idle"
    /\ op' = [kind |-> "embed_texts", texts |-> texts, model |-> model,
              use_openai |-> use_openai, batch_size |-> batch_size]
    /\ IF UseRemote(use_openai)
       THEN IF texts = <<>>
            THEN /\ epc' = "returned"
                 /\ result' = <<>>
                 /\ task' = <<>>
                 /\ UNCHANGED <<batch_lo, calls, error>>
            ELSE LET hi == BatchHi(1, texts, batch_size)
                 IN  /\ epc' = "gathering"
                     /\ batch_lo' = 1
                     /\ task' = StartRemote([i \in 1..Len(texts) |-> NewTask], 1, hi)
                     /\ calls' = [calls EXCEPT !.remote = @ + hi]
                     /\ UNCHANGED <<result, error>>
       ELSE IF ~local_model
       THEN /\ epc' = "raised"
            /\ error' = "ValueError"
            /\ task' = [i \in 1..Len(texts) |-> NewTask]
            /\ UNCHANGED <<batch_lo, calls, result>>
       ELSE /\ epc' = "local_batch"
            /\ task' = [i \in 1..Len(texts) |-> NewTask]
            /\ calls' = [calls EXCEPT !.local = @ + 1]
            /\ UNCHANGED <<batch_lo, result, error>>
    /\ UNCHANGED <<local_model, openai_client, finished, embeddings, nonEmbedVars>>

\* _embed_with_openai: the provider answers
RemoteOk(i) ==
    /\ task[i].state = "remote"
    /\ task' = [task EXCEPT ![i] = [state |-> "done", fellback |-> FALSE,
                                    vec |-> RemoteVec(op.texts[i], op.model)]]
    /\ finished' = Append(finished, i)
    /\ UNCHANGED <<local_model, openai_client, op, epc, batch_lo, embeddings,
                   result, error, calls, nonEmbedVars>>

\* _embed_with_openai: the provider call raises; fall back to
\* _embed_with_local_model, which raises ValueError without a local model
RemoteErr(i) ==
    /\ task[i].state = "remote"
    /\ IF local_model
       THEN /\ task' = [task EXCEPT ![i] = [state |-> "local", fellback |-> TRUE,
                                            vec |-> NoVec]]
            /\ calls' = [calls EXCEPT !.local = @ + 1]
            /\ UNCHANGED finished
       ELSE /\ task' = [task EXCEPT ![i] = [state |-> "ValueError", fellback |-> TRUE,
                                            vec |-> NoVec]]
            /\ finished' = Append(finished, i)
            /\ UNCHANGED calls
    /\ UNCHANGED <<local_model, openai_client, op, epc, batch_lo, embeddings,
                   result, error, nonEmbedVars>>

\* _embed_with_local_model: encode returns in the executor
LocalOk(i) ==
    /\ task[i].state = "local"
    /\ task' = [task EXCEPT ![i] = [state |-> "done", fellback |-> @.fellback,
                                    vec |-> LocalVec(op.texts[i])]]
    /\ finished' = Append(finished, i)
    /\ UNCHANGED <<local_model, openai_client, op, epc, batch_lo, embeddings,
                   result, error, calls, nonEmbedVars>>

\* _embed_with_local_model: encode raises; logged and re-raised
LocalErr(i) ==
    /\ task[i].state = "local"
    /\ task' = [task EXCEPT ![i] = [state |-> "EncodeError", fellback |-> @.fellback,
                                    vec |-> NoVec]]
    /\ finished' = Append(finished, i)
    /\ UNCHANGED <<local_model, openai_client, op, epc, batch_lo, embeddings,
                   result, error, calls, nonEmbedVars>>

TaskRaised(i) == task[i].state \in {"ValueError", "EncodeError"}

\* call i completed no later than call j
CompletedBefore(i, j) ==
    \E m \in 1..Len(finished) :
        /\ finished[m] = i
        /\ \A k \in 1..(m - 1) : finished[k] # j

\* embed_text returns what its one call returned
SingleReturn ==
    /\ epc = "single"
    /\ task[1].state = "done"
    /\ epc' = "returned"
    /\ result' = task[1].vec
    /\ UNCHANGED <<local_model, openai_client, op, batch_lo, task, finished,
                   embeddings, error, calls, nonEmbedVars>>

SingleRaise ==
    /\ epc = "single"
    /\ TaskRaised(1)
    /\ epc' = "raised"
    /\ error' = task[1].state
    /\ UNCHANGED <<local_model, openai_client, op, batch_lo, task, finished,
                   embeddings, result, calls, nonEmbedVars>>

\* the gather of the current sub-batch completes: extend, then the next
\* sub-batch or return
GatherReturn ==
    /\ epc = "gathering"
    /\ LET hi == BatchHi(batch_lo, op.texts, op.batch_size)
           ext == embeddings \o GatherResults(task, batch_lo, hi, finished)
           nlo == batch_lo + op.batch_size
           nhi == BatchHi(nlo, op.texts, op.batch_size)
       IN  /\ \A i \in batch_lo..hi : task[i].state = "done"
           /\ embeddings' = ext
           /\ IF nlo <= Len(op.texts)
              THEN /\ batch_lo' = nlo
                   /\ task' = StartRemote(task, nlo, nhi)
                   /\ calls' = [calls EXCEPT !.remote = @ + (nhi - nlo + 1)]
                   /\ UNCHANGED <<epc, result>>
              ELSE /\ epc' = "returned"
                   /\ result' = ext
                   /\ UNCHANGED <<batch_lo, task, calls>>
    /\ UNCHANGED <<local_model, openai_client, op, finished, error, nonEmbedVars>>

\* asyncio.gather propagates the first exception of the sub-batch
GatherRaise ==
    /\ epc = "gathering"
    /\ \E i \in batch_lo..BatchHi(batch_lo, op.texts, op.batch_size) :
          /\ TaskRaised(i)
          /\ \A j \in DOMAIN task : TaskRaised(j) => CompletedBefore(i, j)
          /\ epc' = "raised"
          /\ error' = task[i].state
    /\ UNCHANGED <<local_model, openai_client, op, batch_lo, task, finished,
                   embeddings, result, calls, nonEmbedVars>>

\* _embed_with_local_model_batch: one encode of the whole list
LocalBatchOk ==
    /\ epc = "local_batch"
    /\ epc' = "returned"
    /\ result' = [i \in 1..Len(op.texts) |-> LocalVec(op.texts[i])]
    /\ UNCHANGED <<local_model, openai_client, op, batch_lo, task, finished,
                   embeddings, error, calls, nonEmbedVars>>

LocalBatchErr ==
    /\ epc = "local_batch"
    /\ epc' = "raised"
    /\ error' = "EncodeError"
    /\ UNCHANGED <<local_model, openai_client, op, batch_lo, task, finished,
                   embeddings, result, calls, nonEmbedVars>>

(***************************************************************************)
(* Embedding inputs                                                        *)
(***************************************************************************)
MaxTexts == 3
MaxBatchSize == 2

EmbedTextSet == {"a", "b"}

TextLists == UNION {[1..n -> EmbedTextSet] : n \in 0..MaxTexts}

(***************************************************************************)
(* The vector store (qdrant_client.AsyncQdrantClient), as VectorService    *)
(* calls it                                                                *)
(***************************************************************************)
ProjectCollection_Default(project_id) == <<"code_embeddings">>

\* f"project_{project_id}"
ProjectCollection(project_id) == <<"project_", project_id>>

\* self.default_collection
DefaultCollection == <<"code_embeddings">>

Absent == [exists |-> FALSE, size |-> 0, points |-> <<>>]

\* client.create_collection: raises when the collection already exists
StoreCreate(st, name, size) ==
    IF st[name].exists
    THEN [ok |-> FALSE, why |-> "exists", store |-> st]
    ELSE [ok |-> TRUE, why |-> "created",
          store |-> [st EXCEPT ![name] = [exists |-> TRUE, size |-> size,
                                          points |-> <<>>]]]

\* client.upsert: a point whose id is stored is overwritten, any other is
\* added; raises for a missing collection or a vector of another dimension
StoreUpsert(st, name, pts) ==
    IF ~st[name].exists
    THEN [ok |-> FALSE, why |-> "not_found", store |-> st]
    ELSE IF \E k \in 1..Len(pts) : pts[k].vector.dim # st[name].size
    THEN [ok |-> FALSE, why |-> "dimension", store |-> st]
    ELSE LET old == st[name].points
             new == {pts[k].id : k \in 1..Len(pts)}
             last(id) == CHOOSE k \in 1..Len(pts) :
                            /\ pts[k].id = id
                            /\ \A m \in (k + 1)..Len(pts) : pts[m].id # id
             merged == [id \in (DOMAIN old) \cup new |->
                          IF id \in new
                          THEN [vector |-> pts[last(id)].vector,
                                payload |-> pts[last(id)].payload]
                          ELSE old[id]]
         IN  [ok |-> TRUE, why |-> "stored",
              store |-> [st EXCEPT ![name].points = merged]]

\* cosine similarity of two embedded texts, in percent, as the store scores it
CosinePct(t1, t2) ==
    IF t1 = t2 THEN 100
    ELSE LET pair == {t1, t2}
         IN  IF pair = {"q", "a"} THEN 95
             ELSE IF pair = {"q", "b"} THEN 80
             ELSE IF pair = {"q", "c"} THEN 99
             ELSE IF pair = {"q", "d"} THEN 70
             ELSE IF pair = {"q", "e"} THEN 80
             ELSE 50

Score(q, v) == CosinePct(q.text, v.text)

NoPayload == [text |-> "null"]

\* client.search: the `limit` best-scoring points in descending score order,
\* none below score_threshold when one is given; points of equal score come
\* in an order the store chooses.  The set of lists the store may return.
StoreSearch(st, name, q, args) ==
    LET pts == st[name].points
        cands == {id \in DOMAIN pts :
                     \A t \in args.score_threshold : Score(q, pts[id].vector) >= t}
        n == Min(args.limit, Cardinality(cands))
        orders == {r \in [1..n -> cands] :
                     /\ \A i, j \in 1..n : i < j =>
                           /\ r[i] # r[j]
                           /\ Score(q, pts[r[i]].vector) >= Score(q, pts[r[j]].vector)
                     /\ \A c \in cands : (\A i \in 1..n : r[i] # c) =>
                           \A i \in 1..n :
                              Score(q, pts[c].vector) <= Score(q, pts[r[i]].vector)}
    IN  {[i \in 1..n |->
            [id |-> r[i], score |-> Score(q, pts[r[i]].vector),
             payload |-> IF args.with_payload THEN pts[r[i]].payload
                         ELSE NoPayload]] : r \in orders}

(***************************************************************************)
(* VectorService                                                           *)
(***************************************************************************)
\* create_collection: TRUE when created, FALSE when the store call raised
create_collection(st, name, size, fault) ==
    LET r == StoreCreate(st, name, size)
    IN  IF fault THEN [ret |-> FALSE, outcome |-> "fault", store |-> st, calls |-> 1]
        ELSE [ret |-> r.ok, outcome |-> r.why, store |-> r.store, calls |-> 1]

\* collection_exists: FALSE also when get_collections raised
collection_exists(st, name, fault) ==
    IF fault THEN FALSE ELSE st[name].exists

GenerateIds_ByPosition(n, drawn) == [k \in 1..n |-> <<"uuid", k>>]

\* [str(uuid.uuid4()) for _ in vectors]: values never drawn before
GenerateIds(n, drawn) == [k \in 1..n |-> <<"uuid", drawn + k>>]

ZipPoints_Strict(ids, vecs, pays) ==
    IF Len(ids) = Len(vecs) /\ Len(vecs) = Len(pays)
    THEN [k \in 1..Len(vecs) |->
             [id |-> ids[k], vector |-> vecs[k], payload |-> pays[k]]]
    ELSE <<>>

\* zip(ids, vectors, payloads): as long as the shortest of the three
ZipPoints(ids, vecs, pays) ==
    [k \in 1..Min(Len(ids), Min(Len(vecs), Len(pays))) |->
        [id |-> ids[k], vector |-> vecs[k], payload |-> pays[k]]]

add_vectors_Retry(st, name, vecs, pays, ids, drawn, fault) ==
    LET generated == (ids = <<>>)
        pts == ZipPoints(IF generated THEN GenerateIds(Len(vecs), drawn) ELSE ids,
                         vecs, pays)
        r == StoreUpsert(st, name, pts)
    IN  [ret |-> r.ok, store |-> r.store, sent |-> pts,
         drawn |-> IF generated THEN drawn + Len(vecs) ELSE drawn,
         calls |-> IF fault THEN 2 ELSE 1]

\* add_vectors; ids = <<>> stands for None and for the empty list ("if not ids");
\* calls is the number of client.upsert calls issued
add_vectors(st, name, vecs, pays, ids, drawn, fault) ==
    LET generated == (ids = <<>>)
        pts == ZipPoints(IF generated THEN GenerateIds(Len(vecs), drawn) ELSE ids,
                         vecs, pays)
        r == StoreUpsert(st, name, pts)
    IN  [ret |-> ~fault /\ r.ok,
         store |-> IF fault THEN st ELSE r.store,
         sent |-> pts,
         drawn |-> IF generated THEN drawn + Len(vecs) ELSE drawn,
         calls |-> 1]

SearchArgs_NoThreshold(limit, score_threshold) ==
    [limit |-> limit, score_threshold |-> {}, with_payload |-> TRUE]

\* the arguments search_vectors hands to client.search (no filter_conditions)
SearchArgs(limit, score_threshold) ==
    [limit |-> limit, score_threshold |-> score_threshold, with_payload |-> TRUE]

\* search_vectors: the lists it may return; [] when the store call raised
search_vectors(st, name, q, limit, score_threshold, fault) ==
    IF fault \/ ~st[name].exists \/ q.dim # st[name].size
    THEN {<<>>}
    ELSE StoreSearch(st, name, q, SearchArgs(limit, score_threshold))

NoEnsure == [pc |-> "idle", name |-> DefaultCollection, size |-> 0,
             observed |-> "none", outcome |-> "none", ret |-> FALSE]

NoVop == [op |-> "none"]

\* ensure_collection is entered
EnsureCall(c, name, size) ==
    /\ ens[c].pc = "idle"
    /\ ens' = [ens EXCEPT ![c] = [NoEnsure EXCEPT !.pc = "check", !.name = name,
                                                  !.size = size]]
    /\ UNCHANGED <<chunkVars, embedVars, storeVars, vop, indexVars, ctx, sim, wsVars>>

\* "if not await self.collection_exists(collection_name)"
EnsureCheck(c, fault) ==
    /\ ens[c].pc = "check"
    /\ IF collection_exists(store, ens[c].name, fault)
       THEN ens' = [ens EXCEPT ![c].pc = "done", ![c].observed = "present",
                               ![c].ret = TRUE]
       ELSE ens' = [ens EXCEPT ![c].pc = "create",
                               ![c].observed = IF fault THEN "error" ELSE "absent"]
    /\ UNCHANGED <<chunkVars, embedVars, storeVars, vop, indexVars, ctx, sim, wsVars>>

\* "return await self.create_collection(collection_name, vector_size)"
EnsureCreate(c, fault) ==
    /\ ens[c].pc = "create"
    /\ LET r == create_collection(store, ens[c].name, ens[c].size, fault)
       IN  /\ store' = r.store
           /\ ens' = [ens EXCEPT ![c].pc = "done", ![c].outcome = r.outcome,
                                 ![c].ret = r.ret]
    /\ UNCHANGED <<chunkVars, embedVars, uuid_count, vop, indexVars, ctx, sim, wsVars>>

\* a direct create_collection call
VCreate(name, size, fault) ==
    /\ LET r == create_collection(store, name, size, fault)
       IN  /\ store' = r.store
           /\ vop' = [op |-> "create_collection", name |-> name, ret |-> r.ret,
                      store_calls |-> r.calls, before |-> store,
                      failed |-> fault \/ ~StoreCreate(store, name, size).ok]
    /\ UNCHANGED <<chunkVars, embedVars, uuid_count, ens, indexVars, ctx, sim, wsVars>>

\* a direct add_vectors call
VAdd(name, vecs, pays, ids, fault) ==
    /\ LET r == add_vectors(store, name, vecs, pays, ids, uuid_count, fault)
       IN  /\ store' = r.store
           /\ uuid_count' = r.drawn
           /\ vop' = [op |-> "add_vectors", name |-> name, ret |-> r.ret,
                      vectors |-> vecs, payloads |-> pays, ids |-> ids,
                      sent |-> r.sent, store_calls |-> r.calls, before |-> store,
                      failed |-> fault \/ ~StoreUpsert(store, name, r.sent).ok]
    /\ UNCHANGED <<chunkVars, embedVars, ens, indexVars, ctx, sim, wsVars>>

\* a direct search_vectors call
VSearch(name, q, limit, score_threshold, fault) ==
    /\ \E r \in search_vectors(store, name, q, limit, score_threshold, fault) :
          vop' = [op |-> "search_vectors", name |-> name, query |-> q,
                  limit |-> limit, score_threshold |-> score_threshold,
                  fault |-> fault, ret |-> r, store_calls |-> 1, before |-> store,
                  failed |-> fault \/ ~store[name].exists
                                \/ q.dim # store[name].size]
    /\ UNCHANGED <<chunkVars, embedVars, storeVars, ens, indexVars, ctx, sim, wsVars>>

(***************************************************************************)
(* Vector index inputs                                                     *)
(***************************************************************************)
MaxUuids == 2
MaxLimit == 3
NumCallers == 2

Callers == 1..NumCallers
Collections == {ProjectCollection("p1"), DefaultCollection}
Sizes == {LocalDefaultDim, OpenAISmallDim}
VecTexts == {"a", "b", "c"}
QueryVec == LocalVec("q")
Thresholds == {{}, {90}}
CallerIds == {<<"id", 1>>}

VecLists == UNION {[1..n -> {LocalVec(t) : t \in VecTexts}] : n \in 0..2}
PayloadOf(v) == [text |-> v.text]
\* payload lists: one payload per vector, or the last one missing
PayloadLists(vecs) ==
    {[k \in 1..n |-> PayloadOf(vecs[k])] : n \in {Len(vecs), Len(vecs) - 1} \cap Nat}
IdLists == UNION {[1..n -> CallerIds] : n \in 0..1}

EmptyStore == [name \in Collections |-> Absent]

StoreQuiet ==
    /\ store = EmptyStore
    /\ uuid_count = 0
    /\ ens = [c \in Callers |-> NoEnsure]
    /\ vop = NoVop

MaxSockets == 2

Sockets == 1..MaxSockets

NoConn == [pc |-> "none", client_id |-> "", alive |-> FALSE]
NoBroadcast == [pc |-> "idle"]
NoSend == [op |-> "none"]

\* no socket has arrived, nothing is registered, nothing is broadcast
SocketsQuiet ==
    /\ active_connections = <<>>
    /\ conn = [s \in Sockets |-> NoConn]
    /\ accepted = <<>>
    /\ bc = NoBroadcast
    /\ last_send = NoSend

NoContext == [pc |-> "idle"]

NoSimilar == [op |-> "none"]

ContextQuiet ==
    /\ ctx = NoContext
    /\ sim = NoSimilar

IndexQuiet ==
    /\ files = <<>>
    /\ ipc = "idle"
    /\ fi = 0
    /\ ci = 0
    /\ file_chunks = <<>>
    /\ vectors = <<>>
    /\ payloads = <<>>
    /\ exists_seen = FALSE
    /\ ensured = FALSE
    /\ visited = {}
    /\ skipped = {}
    /\ upserts = 0
    /\ runs = <<>>
    /\ trace = <<>>

(***************************************************************************)
(* CodeService.index_project                                               *)
(***************************************************************************)
\* get_embedding_dimension(use_openai, model); the local model's dimension
\* is the length of the vectors it returns
get_embedding_dimension(use_openai, model) ==
    IF use_openai
    THEN (IF ModelOrDefault(model) = "text-embedding-3-large"
          THEN OpenAILargeDim ELSE OpenAISmallDim)
    ELSE LocalDefaultDim

ProjectId == "p1"

FilePath(f) == <<"file", f>>

\* the payload built for a chunk
ChunkPayload(project_id, f, chunk) ==
    [project_id |-> project_id, file_path |-> FilePath(f),
     chunk_type |-> chunk.type, start_line |-> chunk.start_line,
     end_line |-> chunk.end_line, text |-> chunk.text]

AfterFailure_Abort(f) == Len(files) + 1

\* "except Exception ... continue": on to the next file
AfterFailure(f) == f + 1

EmbedReset ==
    /\ op' = NoOp
    /\ epc' = "idle"
    /\ batch_lo' = 0
    /\ task' = <<>>
    /\ finished' = <<>>
    /\ embeddings' = <<>>
    /\ result' = <<>>
    /\ error' = "none"
    /\ calls' = [remote |-> 0, local |-> 0]
    /\ UNCHANGED <<local_model, openai_client>>

\* index_project is entered: the files are enumerated, the lists are empty
IndexStart ==
    /\ ipc = "idle"
    /\ ipc' = "file"
    /\ fi' = 1
    /\ ci' = 0
    /\ file_chunks' = <<>>
    /\ vectors' = <<>>
    /\ payloads' = <<>>
    /\ visited' = {}
    /\ skipped' = {}
    /\ upserts' = 0
    /\ ensured' = FALSE
    /\ trace' = <<[ev |-> "start",
                    at |-> store[ProjectCollection(ProjectId)].points]>>
    /\ UNCHANGED <<files, exists_seen, runs, chunkVars, embedVars, storeVars,
                   ens, vop, ctx, sim, wsVars>>

\* Path(project_path) or rglob(pattern) raised (a pattern that is empty or
\* absolute, an OSError while walking): the outer handler returns False
IndexEnumerateFailed ==
    /\ ipc = "idle"
    /\ runs' = Append(runs, [ret |-> FALSE, stored |-> FALSE, enumerated |-> FALSE,
                             ensured |-> FALSE, sent |-> <<>>,
                             collection |-> ProjectCollection(ProjectId),
                             present |-> store[ProjectCollection(ProjectId)].exists,
                             upsert_fault |-> FALSE,
                             before |-> store[ProjectCollection(ProjectId)].points,
                             after |-> store[ProjectCollection(ProjectId)].points,
                             visited |-> {}, skipped |-> {}, payloads |-> <<>>,
                             vectors |-> <<>>, upserts |-> 0, trace |-> <<>>])
    /\ UNCHANGED <<files, trace,
                   ipc, fi, ci, file_chunks, vectors, payloads, exists_seen,
                   ensured, visited, skipped, upserts, chunkVars, embedVars,
                   storeVars, ens, vop, ctx, sim, wsVars>>

\* open and read the next file, chunk it; an unreadable file is skipped
IndexOpenFile ==
    /\ ipc = "file"
    /\ fi <= Len(files)
    /\ visited' = visited \cup {fi}
    /\ IF files[fi].readable
       THEN /\ file_chunks' = _chunk_code(files[fi].content)
            /\ ci' = 1
            /\ ipc' = "chunk"
            /\ UNCHANGED <<fi, skipped>>
       ELSE /\ skipped' = skipped \cup {fi}
            /\ fi' = AfterFailure(fi)
            /\ UNCHANGED <<file_chunks, ci, ipc>>
    /\ trace' = Append(trace, [ev |-> "open", at |-> fi])
    /\ UNCHANGED <<files, vectors, payloads, exists_seen, ensured, upserts, runs,
                   chunkVars, embedVars, storeVars, ens, vop, ctx, sim, wsVars>>

\* "embedding = await self.embedding_service.embed_text(chunk["text"])"
IndexEmbedCall ==
    /\ ipc = "chunk"
    /\ EmbedText(file_chunks[ci].text, "None", FALSE)

\* the embedding arrived: append vector and payload, next chunk or next file
IndexEmbedDone ==
    /\ ipc = "chunk"
    /\ epc = "returned"
    /\ vectors' = Append(vectors, result)
    /\ payloads' = Append(payloads, ChunkPayload(ProjectId, fi, file_chunks[ci]))
    /\ IF ci < Len(file_chunks)
       THEN /\ ci' = ci + 1
            /\ UNCHANGED <<fi, ipc>>
       ELSE /\ fi' = fi + 1
            /\ ipc' = "file"
            /\ UNCHANGED ci
    /\ EmbedReset
    /\ trace' = Append(trace, [ev |-> "embedded", at |-> <<fi, ci>>])
    /\ UNCHANGED <<files, file_chunks, exists_seen, ensured, visited, skipped, upserts,
                   runs, chunkVars, storeVars, ens, vop, ctx, sim, wsVars>>

IndexEmbedFailed_DropFile ==
    /\ ipc = "chunk"
    /\ epc = "raised"
    /\ skipped' = skipped \cup {fi}
    /\ fi' = AfterFailure(fi)
    /\ ipc' = "file"
    /\ vectors' = SubSeq(vectors, 1, Len(vectors) - (ci - 1))
    /\ payloads' = SubSeq(payloads, 1, Len(payloads) - (ci - 1))
    /\ EmbedReset
    /\ UNCHANGED <<files, trace,
                   ci, file_chunks, exists_seen, ensured, visited,
                   upserts, runs, chunkVars, storeVars, ens, vop, ctx, sim, wsVars>>

\* embed_text raised: the file is skipped, what it appended so far stays
IndexEmbedFailed ==
    /\ ipc = "chunk"
    /\ epc = "raised"
    /\ skipped' = skipped \cup {fi}
    /\ fi' = AfterFailure(fi)
    /\ ipc' = "file"
    /\ EmbedReset
    /\ UNCHANGED <<files, trace,
                   ci, file_chunks, vectors, payloads, exists_seen, ensured, visited,
                   upserts, runs, chunkVars, storeVars, ens, vop, ctx, sim, wsVars>>

IndexLoopEnd_BeforeLastFile ==
    /\ ipc = "file"
    /\ fi >= Len(files)
    /\ ipc' = "ensure_check"
    /\ UNCHANGED <<files, trace,
                   fi, ci, file_chunks, vectors, payloads, exists_seen, ensured,
                   visited, skipped, upserts, runs, chunkVars, embedVars,
                   storeVars, ens, vop, ctx, sim, wsVars>>

\* the loop over code_files is exhausted
IndexLoopEnd ==
    /\ ipc = "file"
    /\ fi > Len(files)
    /\ ipc' = "ensure_check"
    /\ UNCHANGED <<files, trace,
                   fi, ci, file_chunks, vectors, payloads, exists_seen, ensured,
                   visited, skipped, upserts, runs, chunkVars, embedVars,
                   storeVars, ens, vop, ctx, sim, wsVars>>

\* ensure_collection: the existence check
IndexEnsureCheck(fault) ==
    /\ ipc = "ensure_check"
    /\ exists_seen' = collection_exists(store, ProjectCollection(ProjectId), fault)
    /\ ensured' = exists_seen'
    /\ ipc' = IF exists_seen' THEN "upsert" ELSE "ensure_create"
    /\ trace' = Append(trace, [ev |-> "ensure_collection",
                               at |-> <<ProjectCollection(ProjectId),
                                        get_embedding_dimension(FALSE, "None")>>])
    /\ UNCHANGED <<files, fi, ci, file_chunks, vectors, payloads, visited, skipped,
                   upserts, runs, chunkVars, embedVars, storeVars, ens, vop, ctx, sim, wsVars>>

\* ensure_collection: the creation; its result is not looked at
IndexEnsureCreate(fault) ==
    /\ ipc = "ensure_create"
    /\ LET r == create_collection(store, ProjectCollection(ProjectId),
                                  get_embedding_dimension(FALSE, "None"), fault)
       IN  /\ store' = r.store
           /\ ensured' = r.ret
    /\ ipc' = "upsert"
    /\ UNCHANGED <<files, trace,
                   fi, ci, file_chunks, vectors, payloads, exists_seen,
                   visited, skipped, upserts, runs, chunkVars, embedVars,
                   uuid_count, ens, vop, ctx, sim, wsVars>>

IndexResult_AllStepsOk(success, ensure_ok, failed_files) ==
    success /\ ensure_ok /\ failed_files = {}

\* "return success": the result of add_vectors, whatever ensure_collection
\* returned and whatever files were skipped
IndexResult(success, ensure_ok, failed_files) == success

\* the record of a finished run (trace' is the run's trace with its last call)
RunRecord(r, name, fault, issued) ==
    [ret |-> IndexResult(r.ret, ensured, skipped),
     stored |-> r.ret, enumerated |-> TRUE, ensured |-> ensured,
     collection |-> name, present |-> store[name].exists,
     upsert_fault |-> fault, sent |-> r.sent,
     before |-> store[name].points, after |-> r.store[name].points,
     visited |-> visited, skipped |-> skipped,
     payloads |-> payloads, vectors |-> vectors, upserts |-> issued,
     trace |-> trace']

IndexUpsert_SkipEmpty(fault) ==
    /\ ipc = "upsert"
    /\ trace' = trace
    /\ LET name == ProjectCollection(ProjectId)
           r == IF vectors = <<>>
                THEN [ret |-> FALSE, store |-> store, sent |-> <<>>,
                      drawn |-> uuid_count]
                ELSE add_vectors(store, name, vectors, payloads, <<>>, uuid_count,
                                 fault)
           issued == IF vectors = <<>> THEN upserts ELSE upserts + 1
       IN  /\ store' = r.store
           /\ uuid_count' = r.drawn
           /\ upserts' = issued
           /\ runs' = Append(runs, RunRecord(r, name, fault, issued))
    /\ ipc' = "idle"
    /\ UNCHANGED <<files, fi, ci, file_chunks, vectors, payloads, exists_seen,
                   ensured, visited, skipped, chunkVars, embedVars, ens, vop,
                   ctx, sim, wsVars>>

\* add_vectors without ids, and the return of its result
IndexUpsert(fault) ==
    /\ ipc = "upsert"
    /\ trace' = Append(trace, [ev |-> "add_vectors",
                               at |-> <<ProjectCollection(ProjectId), vectors,
                                        payloads>>])
    /\ LET name == ProjectCollection(ProjectId)
           r == add_vectors(store, name, vectors, payloads, <<>>, uuid_count, fault)
       IN  /\ store' = r.store
           /\ uuid_count' = r.drawn
           /\ upserts' = upserts + 1
           /\ runs' = Append(runs, RunRecord(r, name, fault, upserts + 1))
    /\ ipc' = "idle"
    /\ UNCHANGED <<files, fi, ci, file_chunks, vectors, payloads, exists_seen,
                   ensured, visited, skipped, chunkVars, embedVars, ens, vop,
                   ctx, sim, wsVars>>

(***************************************************************************)
(* Indexing inputs                                                         *)
(***************************************************************************)
MaxFiles == 2

\* a one-line file, and a file the definition rule cuts in two
OneLineFile == <<"x">>
TwoChunkFile == LongContent(MinChunkLines + 2, MinChunkLines + 1, 0, DefPrefix \o <<"f">>)

ProjectFiles ==
    {[readable |-> TRUE, content |-> c] : c \in {OneLineFile, TwoChunkFile}}
        \cup {[readable |-> FALSE, content |-> <<>>]}

MaxRuns == 2

FileLists == UNION {[1..n -> ProjectFiles] : n \in 0..MaxFiles}

Unreadable == [readable |-> FALSE, content |-> <<>>]
Readable(c) == [readable |-> TRUE, content |-> c]

\* the projects that are indexed repeatedly
ReindexProjects ==
    { <<>>,
      <<Readable(TwoChunkFile)>>,
      <<Unreadable, Readable(OneLineFile)>>,
      <<Readable(OneLineFile), Readable(TwoChunkFile)>> }

(***************************************************************************)
(* EmbeddingService.compute_similarity and find_most_similar               *)
(***************************************************************************)
\* a vector all of whose components are zero
ZeroVec(dim) == [by |-> "caller", text |-> "0", dim |-> dim]

\* compute_similarity, in percent: 0.0 when a norm is zero, and 0.0 when
\* np.dot raises because the lengths differ (the exception is caught)
compute_similarity(embedding1, embedding2) ==
    IF embedding1.dim # embedding2.dim THEN 0
    ELSE IF embedding1.text = "0" \/ embedding2.text = "0" THEN 0
    ELSE CosinePct(embedding1.text, embedding2.text)

\* [(i, similarity) for i, candidate in enumerate(candidate_embeddings)]
ScoreCandidates(query_embedding, candidate_embeddings) ==
    [k \in 1..Len(candidate_embeddings) |->
        <<k - 1, compute_similarity(query_embedding, candidate_embeddings[k])>>]

\* the pair p put in its place in the sorted list: after every pair whose
\* score is at least p's
InsertDesc(sorted, p) ==
    LET ahead == {k \in 1..Len(sorted) : sorted[k][2] >= p[2]}
        n == Cardinality(ahead)
    IN  SubSeq(sorted, 1, n) \o <<p>> \o SubSeq(sorted, n + 1, Len(sorted))

Reverse(s) == [k \in 1..Len(s) |-> s[Len(s) + 1 - k]]

InsertAsc(sorted, p) ==
    LET ahead == {k \in 1..Len(sorted) : sorted[k][2] <= p[2]}
        n == Cardinality(ahead)
    IN  SubSeq(sorted, 1, n) \o <<p>> \o SubSeq(sorted, n + 1, Len(sorted))

SortByScoreDesc_AscendingReversed(pairs) ==
    LET F[k \in 0..Len(pairs)] ==
            IF k = 0 THEN <<>> ELSE InsertAsc(F[k - 1], pairs[k])
    IN  Reverse(F[Len(pairs)])

\* similarities.sort(key=lambda x: x[1], reverse=True): list.sort is stable,
\* also with reverse=True
SortByScoreDesc(pairs) ==
    LET F[k \in 0..Len(pairs)] ==
            IF k = 0 THEN <<>> ELSE InsertDesc(F[k - 1], pairs[k])
    IN  F[Len(pairs)]

\* lst[:k]
SliceTo(lst, k) ==
    IF k >= 0 THEN SubSeq(lst, 1, Min(k, Len(lst)))
    ELSE SubSeq(lst, 1, Len(lst) + k)

find_most_similar(query_embedding, candidate_embeddings, top_k) ==
    SliceTo(SortByScoreDesc(ScoreCandidates(query_embedding, candidate_embeddings)),
            top_k)

\* a find_most_similar call
FindMostSimilar(query_embedding, candidate_embeddings, top_k) ==
    /\ sim' = [op |-> "find_most_similar", query |-> query_embedding,
               candidates |-> candidate_embeddings, top_k |-> top_k,
               ret |-> find_most_similar(query_embedding, candidate_embeddings,
                                         top_k)]
    /\ UNCHANGED <<chunkVars, embedVars, storeVars, ens, vop, indexVars, ctx,
                   wsVars>>

(***************************************************************************)
(* Similarity inputs                                                       *)
(***************************************************************************)
MaxCandidates == 3
MaxTopK == 4

\* candidates scoring 95, 80, 99 and 80 against the query, a zero vector and
\* a vector of another length
CandidateVecs ==
    {LocalVec(t) : t \in {"a", "b", "c", "e"}}
        \cup {ZeroVec(LocalDefaultDim), RemoteVec("a", "None")}

CandidateLists == UNION {[1..n -> CandidateVecs] : n \in 0..MaxCandidates}

(***************************************************************************)
(* CodeService._get_relevant_context                                       *)
(***************************************************************************)
\* limit=3
MaxSnippets == 3
\* score_threshold=0.7, in percent
ContextThreshold == 70

\* collection_name="code_embeddings"
ContextCollection == DefaultCollection

ContextHits_Unfiltered(st, q, fault) ==
    search_vectors(st, ContextCollection, q, MaxSnippets, {}, fault)

\* the search _get_relevant_context issues: the lists it may get back
ContextHits(st, q, fault) ==
    search_vectors(st, ContextCollection, q, MaxSnippets, {ContextThreshold}, fault)

\* "\n\n".join(parts)
JoinBlank(parts) ==
    LET F[k \in 0..Len(parts)] ==
            IF k = 0 THEN <<>>
            ELSE IF k = 1 THEN parts[1]
            ELSE F[k - 1] \o <<NL, NL>> \o parts[k]
    IN  F[Len(parts)]

\* the snippets of the results whose payload has a non-empty "text"
ContextSnippets(results) ==
    LET kept == SelectSeq(results, LAMBDA r : r.payload.text # <<>>)
    IN  [k \in 1..Len(kept) |-> kept[k].payload.text]

ContextOnError_Propagate(query) ==
    [pc |-> "done", ret |-> <<>>, raised |-> TRUE, hits |-> <<>>, query |-> query,
     failed |-> "embed_text"]

\* "except Exception ... return ''"
ContextOnError(query) ==
    [pc |-> "done", ret |-> <<>>, raised |-> FALSE, hits |-> <<>>, query |-> query,
     failed |-> "embed_text"]

\* _get_relevant_context(query, language) is entered
ContextCall(query) ==
    /\ ctx.pc = "idle"
    /\ epc = "idle"
    /\ ctx' = [pc |-> "embed", query |-> query]
    /\ UNCHANGED <<chunkVars, embedVars, storeVars, ens, vop, indexVars, sim, wsVars>>

\* "query_embedding = await self.embedding_service.embed_text(query)"
ContextEmbedCall ==
    /\ ctx.pc = "embed"
    /\ EmbedText(ctx.query, "None", FALSE)

\* embed_text raised: caught, the empty string is returned
ContextEmbedFailed ==
    /\ ctx.pc = "embed"
    /\ epc = "raised"
    /\ ctx' = ContextOnError(ctx.query)
    /\ UNCHANGED <<chunkVars, embedVars, storeVars, ens, vop, indexVars, sim, wsVars>>

\* the search, the extraction of the snippets and the join
ContextSearch(fault) ==
    /\ ctx.pc = "embed"
    /\ epc = "returned"
    /\ \E hits \in ContextHits(store, result, fault) :
          ctx' = [pc |-> "done", ret |-> JoinBlank(ContextSnippets(hits)),
                  raised |-> FALSE, hits |-> hits, query |-> ctx.query,
                  failed |-> IF fault THEN "search" ELSE "none"]
    /\ UNCHANGED <<chunkVars, embedVars, storeVars, ens, vop, indexVars, sim, wsVars>>

(***************************************************************************)
(* Context retrieval inputs                                                *)
(***************************************************************************)
\* stored texts scoring 95, 80, 99, 70, 80 and 50 against the query "q"
ContextTexts == {"a", "b", "c", "d", "e", "f"}
\* "z" is a query nothing stored is similar to
Queries == {"q", "z"}

ContextPoint(t, blank) ==
    [vector |-> LocalVec(t), payload |-> [text |-> IF blank THEN <<>> ELSE <<t>>]]

\* the default collection after add_vectors calls: points over the texts T,
\* those in B with an empty text payload
FilledStore(size, T, B) ==
    [EmptyStore EXCEPT ![DefaultCollection] =
        [exists |-> TRUE, size |-> size,
         points |-> [id \in {<<"id", t>> : t \in T} |-> ContextPoint(id[2], id[2] \in B)]]]

ContextStores ==
    {EmptyStore} \cup
    {FilledStore(size, T, B) :
        size \in Sizes, T \in SUBSET ContextTexts, B \in SUBSET {"a"}}

(***************************************************************************)
(* WebSocketManager.active_connections: a Python dict                      *)
(***************************************************************************)
\* the slot a deleted key leaves in the entries of the dict
Tomb == [key |-> "", value |-> 0]

\* len(d)
DictLen(entries) == Cardinality({k \in 1..Len(entries) : entries[k] # Tomb})

\* key in d
DictHas(entries, key) == \E k \in 1..Len(entries) : entries[k].key = key

\* d[key]
DictGet(entries, key) ==
    entries[CHOOSE k \in 1..Len(entries) : entries[k].key = key].value

\* the entries after a resize: the slots of deleted keys are gone
Compact(entries) == SelectSeq(entries, LAMBDA e : e # Tomb)

\* d[key] = value: a present key keeps its place, a new key goes to the end,
\* after a resize when the dict had no room left
DictSet(entries, key, value, resize) ==
    IF DictHas(entries, key)
    THEN [k \in 1..Len(entries) |->
             IF entries[k].key = key THEN [key |-> key, value |-> value]
             ELSE entries[k]]
    ELSE Append(IF resize THEN Compact(entries) ELSE entries,
                [key |-> key, value |-> value])

\* del d[key]
DictDel(entries, key) ==
    [k \in 1..Len(entries) |-> IF entries[k].key = key THEN Tomb ELSE entries[k]]

\* iter(d.items())
DictIter(entries) ==
    [pos |-> 1, used |-> DictLen(entries), left |-> DictLen(entries)]

\* next() of the items iterator: RuntimeError when the size of the dict
\* changed since iter(), or when an entry is found after as many entries as
\* the dict had were yielded
DictIterNext(entries, it) ==
    IF it.used # DictLen(entries)
    THEN [kind |-> "error", it |-> it]
    ELSE LET rest == {k \in it.pos..Len(entries) : entries[k] # Tomb}
         IN  IF rest = {}
             THEN [kind |-> "stop", it |-> it]
             ELSE IF it.left = 0
             THEN [kind |-> "error", it |-> it]
             ELSE LET k == CHOOSE m \in rest : \A n \in rest : m <= n
                  IN  [kind |-> "item", key |-> entries[k].key,
                       value |-> entries[k].value,
                       it |-> [it EXCEPT !.pos = k + 1, !.left = it.left - 1]]

(***************************************************************************)
(* WebSocketManager and websocket_endpoint                                 *)
(***************************************************************************)
ClientIds == {"c1", "c2"}

\* whether a resize can show: only when deleted keys left slots behind
Resizes(entries) == IF Compact(entries) = entries THEN {FALSE} ELSE BOOLEAN

\* disconnect(client_id): whatever is registered under client_id is removed
disconnect(entries, client_id) ==
    IF DictHas(entries, client_id) THEN DictDel(entries, client_id) ELSE entries

\* send_personal_message: the socket written to, whether the write worked,
\* and the dict afterwards (a failed write ends in disconnect(client_id))
send_personal_message(entries, client_id) ==
    IF ~DictHas(entries, client_id)
    THEN [sent |-> FALSE, to |-> 0, ok |-> FALSE, entries |-> entries]
    ELSE LET to == DictGet(entries, client_id)
         IN  IF conn[to].alive
             THEN [sent |-> TRUE, to |-> to, ok |-> TRUE, entries |-> entries]
             ELSE [sent |-> TRUE, to |-> to, ok |-> FALSE,
                   entries |-> disconnect(entries, client_id)]

\* a client opens /ws/{client_id}: the handler awaits websocket.accept()
WsArrive(s, client_id) ==
    /\ conn[s].pc = "none"
    /\ s > 1 => conn[s - 1].pc # "none"
    /\ conn' = [conn EXCEPT ![s] = [pc |-> "accept", client_id |-> client_id,
                                    alive |-> TRUE]]
    /\ UNCHANGED <<chunkVars, embedVars, storeVars, ens, vop, indexVars, ctx, sim,
                   active_connections, accepted, bc, last_send>>

\* connect(): accept() returned, the socket is stored under its client_id
WsConnect(s, resize) ==
    /\ conn[s].pc = "accept"
    /\ active_connections' = DictSet(active_connections, conn[s].client_id, s, resize)
    /\ accepted' = Append(accepted, s)
    /\ conn' = [conn EXCEPT ![s].pc = "receive"]
    /\ UNCHANGED <<chunkVars, embedVars, storeVars, ens, vop, indexVars, ctx, sim,
                   bc, last_send>>

\* the peer of a registered socket goes away
WsPeerDrop(s) ==
    /\ conn[s].pc = "receive"
    /\ conn[s].alive
    /\ conn' = [conn EXCEPT ![s].alive = FALSE]
    /\ UNCHANGED <<chunkVars, embedVars, storeVars, ens, vop, indexVars, ctx, sim,
                   active_connections, accepted, bc, last_send>>

\* receive_json raises WebSocketDisconnect: disconnect(client_id)
WsReceiveDisconnect(s) ==
    /\ conn[s].pc = "receive"
    /\ ~conn[s].alive
    /\ active_connections' = disconnect(active_connections, conn[s].client_id)
    /\ conn' = [conn EXCEPT ![s].pc = "ended"]
    /\ UNCHANGED <<chunkVars, embedVars, storeVars, ens, vop, indexVars, ctx, sim,
                   accepted, bc, last_send>>

\* the reply to a chat or completion message the handler received earlier:
\* send_personal_message(response, client_id)
WsReply(s) ==
    /\ conn[s].pc = "receive"
    /\ LET r == send_personal_message(active_connections, conn[s].client_id)
       IN  /\ active_connections' = r.entries
           /\ last_send' = [op |-> "send_personal_message",
                            client_id |-> conn[s].client_id, sent |-> r.sent,
                            to |-> r.to, ok |-> r.ok]
    /\ UNCHANGED <<chunkVars, embedVars, storeVars, ens, vop, indexVars, ctx, sim,
                   conn, accepted, bc>>

\* a message without "type", or a failing service call: the error message is
\* sent and the handler returns without disconnect(); the socket is closed
WsHandlerError(s) ==
    /\ conn[s].pc = "receive"
    /\ conn[s].alive
    /\ LET r == send_personal_message(active_connections, conn[s].client_id)
       IN  /\ active_connections' = r.entries
           /\ last_send' = [op |-> "send_personal_message",
                            client_id |-> conn[s].client_id, sent |-> r.sent,
                            to |-> r.to, ok |-> r.ok]
    /\ conn' = [conn EXCEPT ![s].pc = "ended", ![s].alive = FALSE]
    /\ UNCHANGED <<chunkVars, embedVars, storeVars, ens, vop, indexVars, ctx, sim,
                   accepted, bc>>

\* the items of the dict, as a set of <<client_id, socket>>
Items(entries) ==
    {<<entries[k].key, entries[k].value>> :
        k \in {m \in 1..Len(entries) : entries[m] # Tomb}}

RECURSIVE DisconnectAll(_, _)
\* "for client_id in disconnected_clients: self.disconnect(client_id)"
DisconnectAll(entries, clients) ==
    IF clients = <<>> THEN entries
    ELSE DisconnectAll(disconnect(entries, Head(clients)), Tail(clients))

\* broadcast from the next() of its loop up to the next suspension: a send
\* that is awaited, the RuntimeError of the iterator, or the removal loop
\* and the return
BroadcastAdvance(b) ==
    LET r == DictIterNext(active_connections, b.it)
    IN  IF r.kind = "error"
        THEN [bc |-> [b EXCEPT !.pc = "raised"], entries |-> active_connections]
        ELSE IF r.kind = "stop"
        THEN LET after == DisconnectAll(active_connections, b.disconnected_clients)
             IN  [bc |-> [b EXCEPT !.pc = "done",
                                   !.removed = Items(active_connections) \ Items(after)],
                  entries |-> after]
        ELSE [bc |-> [b EXCEPT !.pc = "send", !.it = r.it,
                               !.current = <<r.key, r.value>>,
                               !.attempted = b.attempted \cup {<<r.key, r.value>>}],
              entries |-> active_connections]

\* broadcast(message) is called
BroadcastStart ==
    /\ bc.pc = "idle"
    /\ LET b == [pc |-> "start", it |-> DictIter(active_connections),
                 started |-> Items(active_connections), attempted |-> {},
                 failed |-> {}, disconnected_clients |-> <<>>,
                 current |-> <<>>, removed |-> {}]
           r == BroadcastAdvance(b)
       IN  /\ bc' = r.bc
           /\ active_connections' = r.entries
    /\ UNCHANGED <<chunkVars, embedVars, storeVars, ens, vop, indexVars, ctx, sim,
                   conn, accepted, last_send>>

\* the awaited send_text returns or raises, and the loop goes on
BroadcastSendDone ==
    /\ bc.pc = "send"
    /\ LET ok == conn[bc.current[2]].alive
           b == IF ok THEN bc
                ELSE [bc EXCEPT !.failed = bc.failed \cup {bc.current},
                                !.disconnected_clients =
                                    Append(bc.disconnected_clients, bc.current[1])]
           r == BroadcastAdvance(b)
       IN  /\ bc' = r.bc
           /\ active_connections' = r.entries
    /\ UNCHANGED <<chunkVars, embedVars, storeVars, ens, vop, indexVars, ctx, sim,
                   conn, accepted, last_send>>

(***************************************************************************)
(* Specifications                                                          *)
(***************************************************************************)
ChunkQuiet ==
    /\ content = <<>>
    /\ chunks = <<>>
    /\ cpc = "input"

ChunkInit ==
    /\ content \in Contents
    /\ chunks = <<>>
    /\ cpc = "input"
    /\ local_model = TRUE
    /\ openai_client = FALSE
    /\ EmbedQuiet
    /\ StoreQuiet
    /\ ContextQuiet
    /\ SocketsQuiet
    /\ IndexQuiet

ChunkCode ==
    /\ cpc = "input"
    /\ chunks' = _chunk_code(content)
    /\ cpc' = "chunked"
    /\ UNCHANGED <<content, embedVars, storeVars, ens, vop, indexVars, ctx, sim, wsVars>>

ChunkNext == ChunkCode

SpecChunk == ChunkInit /\ [][ChunkNext]_vars

\* _initialize_models: either handle may be missing after construction
EmbedInit ==
    /\ local_model \in BOOLEAN
    /\ openai_client \in BOOLEAN
    /\ EmbedQuiet
    /\ ChunkQuiet
    /\ StoreQuiet
    /\ ContextQuiet
    /\ SocketsQuiet
    /\ IndexQuiet

EmbedNext ==
    \/ \E t \in EmbedTextSet, m \in Models, f \in BOOLEAN : EmbedText(t, m, f)
    \/ \E ts \in TextLists, m \in Models, f \in BOOLEAN, bs \in 1..MaxBatchSize :
          EmbedTexts(ts, m, f, bs)
    \/ \E i \in DOMAIN task : RemoteOk(i)
    \/ \E i \in DOMAIN task : RemoteErr(i)
    \/ \E i \in DOMAIN task : LocalOk(i)
    \/ \E i \in DOMAIN task : LocalErr(i)
    \/ SingleReturn
    \/ SingleRaise
    \/ GatherReturn
    \/ GatherRaise
    \/ LocalBatchOk
    \/ LocalBatchErr

SpecEmbed == EmbedInit /\ [][EmbedNext]_vars

ServicesQuiet ==
    /\ ChunkQuiet
    /\ local_model = TRUE
    /\ openai_client = FALSE
    /\ EmbedQuiet
    /\ IndexQuiet

\* concurrent ensure_collection calls against one store
EnsureInit ==
    /\ ServicesQuiet
    /\ StoreQuiet
    /\ ContextQuiet
    /\ SocketsQuiet

EnsureNext ==
    \/ \E c \in Callers, n \in Collections, sz \in Sizes : EnsureCall(c, n, sz)
    \/ \E c \in Callers, fault \in BOOLEAN : EnsureCheck(c, fault)
    \/ \E c \in Callers, fault \in BOOLEAN : EnsureCreate(c, fault)

SpecEnsure == EnsureInit /\ [][EnsureNext]_vars

\* create, add and search calls against one store
VectorInit ==
    /\ ServicesQuiet
    /\ StoreQuiet
    /\ ContextQuiet
    /\ SocketsQuiet

VectorNext ==
    \/ \E sz \in Sizes, fault \in BOOLEAN :
          VCreate(ProjectCollection("p1"), sz, fault)
    \/ \E vecs \in VecLists, ids \in IdLists, fault \in BOOLEAN :
          \E pays \in PayloadLists(vecs) :
             /\ ids = <<>> => uuid_count + Len(vecs) <= MaxUuids
             /\ VAdd(ProjectCollection("p1"), vecs, pays, ids, fault)
    \/ \E limit \in 1..MaxLimit, thr \in Thresholds, fault \in BOOLEAN :
          VSearch(ProjectCollection("p1"), QueryVec, limit, thr, fault)

SpecVector == VectorInit /\ [][VectorNext]_vars

IndexIdle ==
    /\ ipc = "idle"
    /\ fi = 0
    /\ ci = 0
    /\ file_chunks = <<>>
    /\ vectors = <<>>
    /\ payloads = <<>>
    /\ exists_seen = FALSE
    /\ ensured = FALSE
    /\ visited = {}
    /\ skipped = {}
    /\ upserts = 0
    /\ runs = <<>>
    /\ trace = <<>>

\* one index_project run over a project
IndexInit ==
    /\ ChunkQuiet
    /\ local_model \in BOOLEAN
    /\ openai_client = FALSE
    /\ EmbedQuiet
    /\ StoreQuiet
    /\ ContextQuiet
    /\ SocketsQuiet
    /\ files \in FileLists
    /\ IndexIdle

\* the steps of a run after its start
IndexSteps ==
    \/ IndexOpenFile
    \/ IndexEmbedCall
    \/ ipc = "chunk" /\ epc = "single" /\ LocalOk(1)
    \/ ipc = "chunk" /\ epc = "single" /\ LocalErr(1)
    \/ ipc = "chunk" /\ SingleReturn
    \/ ipc = "chunk" /\ SingleRaise
    \/ IndexEmbedDone
    \/ IndexEmbedFailed
    \/ IndexLoopEnd
    \/ \E fault \in BOOLEAN : IndexEnsureCheck(fault)
    \/ \E fault \in BOOLEAN : IndexEnsureCreate(fault)
    \/ \E fault \in BOOLEAN : IndexUpsert(fault)

IndexNext ==
    \/ runs = <<>> /\ IndexStart
    \/ runs = <<>> /\ IndexEnumerateFailed
    \/ IndexSteps

SpecIndex == IndexInit /\ [][IndexNext]_vars

\* index_project run again and again over a project that does not change
ReindexInit ==
    /\ ChunkQuiet
    /\ local_model \in BOOLEAN
    /\ openai_client = FALSE
    /\ EmbedQuiet
    /\ StoreQuiet
    /\ ContextQuiet
    /\ SocketsQuiet
    /\ files \in ReindexProjects
    /\ IndexIdle

ReindexNext ==
    \/ Len(runs) < MaxRuns /\ IndexStart
    \/ Len(runs) < MaxRuns /\ IndexEnumerateFailed
    \/ IndexSteps

SpecReindex == ReindexInit /\ [][ReindexNext]_vars

\* find_most_similar calls
SimilarInit ==
    /\ ServicesQuiet
    /\ StoreQuiet
    /\ ContextQuiet
    /\ SocketsQuiet

SimilarNext ==
    \E cands \in CandidateLists, top_k \in 0..MaxTopK :
        sim.op = "none" /\ FindMostSimilar(QueryVec, cands, top_k)

SpecSimilar == SimilarInit /\ [][SimilarNext]_vars

\* context retrieval against a default collection filled beforehand
ContextInit ==
    /\ ChunkQuiet
    /\ local_model \in BOOLEAN
    /\ openai_client = FALSE
    /\ EmbedQuiet
    /\ store \in ContextStores
    /\ uuid_count = 0
    /\ ens = [c \in Callers |-> NoEnsure]
    /\ vop = NoVop
    /\ ContextQuiet
    /\ SocketsQuiet
    /\ IndexQuiet

ContextNext ==
    \/ \E query \in Queries : ContextCall(query)
    \/ ContextEmbedCall
    \/ ctx.pc = "embed" /\ epc = "single" /\ LocalOk(1)
    \/ ctx.pc = "embed" /\ epc = "single" /\ LocalErr(1)
    \/ ctx.pc = "embed" /\ SingleReturn
    \/ ctx.pc = "embed" /\ SingleRaise
    \/ ContextEmbedFailed
    \/ \E fault \in BOOLEAN : ContextSearch(fault)

SpecContext == ContextInit /\ [][ContextNext]_vars

\* states of the default collection that index_project runs start from
IndexContextStores ==
    { EmptyStore, FilledStore(LocalDefaultDim, {"a", "b", "d"}, {}) }

\* the projects indexed while contexts are retrieved
IndexContextProjects ==
    { <<Readable(OneLineFile)>>, <<Unreadable, Readable(TwoChunkFile)>> }

\* index_project runs and context retrievals of one CodeService, against a
\* default collection filled beforehand
IndexContextInit ==
    /\ ChunkQuiet
    /\ local_model = TRUE
    /\ openai_client = FALSE
    /\ EmbedQuiet
    /\ store \in IndexContextStores
    /\ uuid_count = 0
    /\ ens = [c \in Callers |-> NoEnsure]
    /\ vop = NoVop
    /\ ContextQuiet
    /\ SocketsQuiet
    /\ files \in IndexContextProjects
    /\ IndexIdle

\* a retrieval falls between two steps of a run, outside its chunk loop
IndexContextNext ==
    \/ ctx.pc # "embed" /\ ReindexNext
    \/ ipc # "chunk" /\ ContextNext

SpecIndexContext == IndexContextInit /\ [][IndexContextNext]_vars

\* websocket handlers and one broadcast, as tasks of one event loop
SocketsInit ==
    /\ ServicesQuiet
    /\ StoreQuiet
    /\ ContextQuiet
    /\ SocketsQuiet

SocketsNext ==
    \/ \E s \in Sockets, client_id \in ClientIds : WsArrive(s, client_id)
    \/ \E s \in Sockets : \E resize \in Resizes(active_connections) :
          WsConnect(s, resize)
    \/ \E s \in Sockets : WsPeerDrop(s)
    \/ \E s \in Sockets : WsReceiveDisconnect(s)
    \/ \E s \in Sockets : WsReply(s)
    \/ \E s \in Sockets : WsHandlerError(s)
    \/ BroadcastStart
    \/ BroadcastSendDone

SpecSockets == SocketsInit /\ [][SocketsNext]_vars

(***************************************************************************)
(* Chunker properties                                                      *)
(***************************************************************************)
ChunkTexts == [k \in 1..Len(chunks) |-> chunks[k].text]

\* C1: joining the chunk texts in output order with a single newline between
\* consecutive chunks gives back exactly the content that was chunked.
C1_RoundTrip ==
    cpc = "chunked" => JoinLines(ChunkTexts) = content

\* a file of several chunks that ends with a newline
C1_Witness ==
    /\ cpc = "chunked"
    /\ Len(chunks) >= 2
    /\ content[Len(content)] = NL
    /\ JoinLines(ChunkTexts) = content

\* C2: line ranges are 1-indexed, contiguous and gapless: the first chunk
\* starts at line 1, start_line <= end_line, each later chunk starts right
\* after the previous one ends, the last chunk ends at the number of lines of
\* the content, and each text holds end_line - start_line + 1 lines.
C2_LineRanges ==
    cpc = "chunked" =>
        /\ Len(chunks) >= 1
        /\ chunks[1].start_line = 1
        /\ chunks[Len(chunks)].end_line = Len(SplitLines(content))
        /\ \A k \in 1..Len(chunks) :
              /\ chunks[k].start_line <= chunks[k].end_line
              /\ k > 1 => chunks[k].start_line = chunks[k - 1].end_line + 1
              /\ Len(SplitLines(chunks[k].text))
                    = chunks[k].end_line - chunks[k].start_line + 1

\* a file cut by the size rule and by the definition rule, with a remainder
C2_Witness ==
    /\ cpc = "chunked"
    /\ Len(chunks) >= 3
    /\ chunks[1].end_line < MaxChunkLines
    /\ \E k \in 1..Len(chunks) :
          chunks[k].end_line - chunks[k].start_line + 1 = MaxChunkLines
    /\ chunks[Len(chunks)].end_line = Len(SplitLines(content))

\* C3: no chunk is empty: every chunk's text is a non-empty string, also for
\* empty content and for content that ends with a newline.
C3_NoEmptyChunkText ==
    cpc = "chunked" => \A k \in 1..Len(chunks) : chunks[k].text # <<>>

(***************************************************************************)
(* Embedding properties                                                    *)
(***************************************************************************)
\* the vector text i must get: the Remote vector if the Remote strategy was
\* taken and its call succeeded, the Local vector otherwise
ExpectedVec(i) ==
    IF op.use_openai /\ openai_client /\ ~task[i].fellback
    THEN RemoteVec(op.texts[i], op.model)
    ELSE LocalVec(op.texts[i])

\* C4: embed_texts returns exactly one vector per text and the i-th vector is
\* the embedding of the i-th text, whatever the order in which the Remote
\* calls completed and whichever of them fell back to Local.
C4_OrderPreserving ==
    (epc = "returned" /\ op.kind = "embed_texts") =>
        /\ Len(result) = Len(op.texts)
        /\ \A i \in 1..Len(op.texts) : result[i] = ExpectedVec(i)

\* two sub-batches, calls completing out of input order, one text fallen back
C4_Witness ==
    /\ epc = "returned"
    /\ op.kind = "embed_texts"
    /\ op.use_openai /\ openai_client
    /\ Len(op.texts) = 3 /\ op.batch_size = 2
    /\ op.texts[1] # op.texts[2]
    /\ finished[1] = 2
    /\ task[1].fellback /\ ~task[2].fellback

\* C5: a failed Remote call is answered by the Local vector of the same text,
\* and embed never ends in an error when Local or Remote is configured.
C5_ResultWheneverConfigured ==
    /\ (epc = "returned" /\ op.kind = "embed_text" /\ task[1].fellback)
            => result = LocalVec(op.texts[1])
    /\ (local_model \/ openai_client) => epc # "raised"

\* C6: with neither Local nor Remote configured every embed_text and
\* embed_texts call fails with the configuration error (ValueError), whatever
\* the input and the strategy flag, and no provider call is made.
C6_NeitherConfigured ==
    (~local_model /\ ~openai_client) =>
        /\ epc \in {"idle", "raised"}
        /\ epc = "raised" => error = "ValueError"
        /\ calls = [remote |-> 0, local |-> 0]

\* a Remote batch call that failed for lack of any provider
C6_Witness ==
    /\ ~local_model /\ ~openai_client
    /\ epc = "raised"
    /\ op.kind = "embed_texts"
    /\ op.use_openai
    /\ Len(op.texts) >= 2

(***************************************************************************)
(* Vector index properties                                                 *)
(***************************************************************************)
\* C7: two concurrent ensure_collection callers that both see the collection
\* absent and both attempt the creation both get TRUE; the one whose creation
\* fails because the collection now exists does not get FALSE.
C7_BenignRaceSucceeds ==
    \A c1, c2 \in Callers :
        (/\ c1 # c2
         /\ ens[c1].pc = "done" /\ ens[c2].pc = "done"
         /\ ens[c1].name = ens[c2].name
         /\ ens[c1].observed = "absent" /\ ens[c2].observed = "absent"
         /\ ens[c1].outcome \in {"created", "exists"}
         /\ ens[c2].outcome \in {"created", "exists"})
            => (ens[c1].ret /\ ens[c2].ret)

Scores(r) == [i \in 1..Len(r) |-> r[i].score]

\* the stored points score exactly 95, 80 and 99 against the query
ScenarioStore(name) ==
    LET pts == store[name].points
    IN  /\ Cardinality(DOMAIN pts) = 3
        /\ {pts[id].vector.text : id \in DOMAIN pts} = {"a", "b", "c"}

\* C9: search_vectors returns at most `limit` results in non-increasing score
\* order, each with the stored payload of its point, none below the threshold
\* when one is given; threshold 0.9 over scores 0.95, 0.8, 0.99 returns
\* exactly the results scoring 0.99 and 0.95 in that order.
C9_SearchOrderedBounded ==
    vop.op = "search_vectors" =>
        LET r == vop.ret
            pts == store[vop.name].points
        IN  /\ Len(r) <= vop.limit
            /\ \A i, j \in 1..Len(r) : i < j => r[i].score >= r[j].score
            /\ \A i \in 1..Len(r) :
                  /\ r[i].id \in DOMAIN pts
                  /\ r[i].payload = pts[r[i].id].payload
                  /\ \A t \in vop.score_threshold : r[i].score >= t
            /\ (/\ ScenarioStore(vop.name)
                /\ ~vop.fault
                /\ store[vop.name].size = vop.query.dim
                /\ vop.score_threshold = {90}
                /\ vop.limit >= 2) => Scores(r) = <<99, 95>>

\* the scenario: three points scoring 95, 80, 99 searched with threshold 90
C9_Witness ==
    /\ vop.op = "search_vectors"
    /\ ScenarioStore(vop.name)
    /\ vop.score_threshold = {90}
    /\ vop.limit = 3
    /\ Scores(vop.ret) = <<99, 95>>

(***************************************************************************)
(* Indexing properties                                                     *)
(***************************************************************************)
\* C8: add_vectors without ids gives every point an id that is not stored
\* yet, so an index_project run that stores at least one chunk appends: the
\* point count of project_{projectId} strictly grows and no point stored
\* before (by an earlier run on the same project) is overwritten.
C8_ReindexAppends ==
    \A k \in 1..Len(runs) :
        (runs[k].ret /\ Len(runs[k].sent) >= 1) =>
            /\ \A i \in 1..Len(runs[k].sent) :
                  runs[k].sent[i].id \notin DOMAIN runs[k].before
            /\ Cardinality(DOMAIN runs[k].after) > Cardinality(DOMAIN runs[k].before)
            /\ \A id \in DOMAIN runs[k].before :
                  /\ id \in DOMAIN runs[k].after
                  /\ runs[k].after[id] = runs[k].before[id]

\* two successful runs over the same files, each storing chunks
C8_Witness ==
    /\ Len(runs) = 2
    /\ runs[1].ret /\ runs[2].ret
    /\ Len(runs[1].sent) >= 2 /\ Len(runs[2].sent) >= 2
    /\ Cardinality(DOMAIN runs[2].after) > Cardinality(DOMAIN runs[1].after)

\* the payloads a run holds for file f, in order
PayloadsOf(ps, f) == SelectSeq(ps, LAMBDA p : p.file_path = FilePath(f))

\* what the chunks of file f give when nothing fails
ExpectedPayloads(f) ==
    LET cs == _chunk_code(files[f].content)
    IN  [k \in 1..Len(cs) |-> ChunkPayload(ProjectId, f, cs[k])]

\* C10: a file that cannot be read, or a chunk of which cannot be embedded,
\* is skipped without ending the run: once the loop over the enumerated
\* files is over every file was opened, every file that did not fail has all its chunks in the batch, and
\* the run ends with its one upsert.
C10_BestEffortPerFile ==
    /\ ipc \in {"ensure_check", "ensure_create", "upsert"} =>
          /\ visited = 1..Len(files)
          /\ \A f \in 1..Len(files) :
                f \notin skipped => PayloadsOf(payloads, f) = ExpectedPayloads(f)
    /\ \A k \in 1..Len(runs) : runs[k].enumerated =>
          /\ runs[k].visited = 1..Len(files)
          /\ runs[k].upserts = 1
          /\ Len(runs[k].vectors) = Len(runs[k].payloads)
          /\ \A f \in 1..Len(files) :
                f \notin runs[k].skipped =>
                    PayloadsOf(runs[k].payloads, f) = ExpectedPayloads(f)

\* the first file fails, the second one is indexed and the upsert succeeds
C10_Witness ==
    /\ Len(runs) >= 1
    /\ Len(files) = 2
    /\ runs[1].skipped = {1}
    /\ files[1].readable
    /\ runs[1].ret
    /\ PayloadsOf(runs[1].payloads, 2) = ExpectedPayloads(2)
    /\ Len(ExpectedPayloads(2)) = 2

\* C11 as stated: every run issues its final upsert and returns true exactly
\* when that upsert succeeded, so that nothing but a failed upsert makes
\* index_project return false.
C11_FalseOnlyOnUpsertFailure ==
    \A k \in 1..Len(runs) :
        /\ runs[k].upserts = 1
        /\ runs[k].ret <=> runs[k].stored

\* C11 amended: a run that enumerated its files issues one upsert and returns
\* that upsert's success, whatever files were skipped and whatever
\* ensure_collection returned; a run whose enumeration raised returns false
\* without any upsert and leaves the collection as it was.
C11_ReturnsUpsertResult ==
    \A k \in 1..Len(runs) :
        /\ runs[k].enumerated =>
              /\ runs[k].upserts = 1
              /\ runs[k].ret <=> runs[k].stored
              /\ runs[k].stored =>
                    \A i \in 1..Len(runs[k].sent) :
                       runs[k].sent[i].id \in DOMAIN runs[k].after
              /\ ~runs[k].stored => runs[k].after = runs[k].before
        /\ ~runs[k].enumerated =>
              /\ ~runs[k].ret
              /\ runs[k].upserts = 0
              /\ runs[k].after = runs[k].before

\* a run returns true although a file was skipped and ensure_collection
\* returned false (the existence check failed, the creation found it there)
C11_Witness ==
    \E k \in 1..Len(runs) :
        /\ runs[k].ret
        /\ runs[k].skipped # {}
        /\ ~runs[k].ensured
        /\ Len(runs[k].sent) >= 1

(***************************************************************************)
(* Context retrieval properties                                            *)
(***************************************************************************)
\* the stored points of the default collection the query can be compared with
Searchable ==
    IF store[DefaultCollection].exists
          /\ store[DefaultCollection].size = LocalDefaultDim
    THEN DOMAIN store[DefaultCollection].points
    ELSE {}

QueryScore(id) ==
    CosinePct(ctx.query, store[DefaultCollection].points[id].vector.text)

\* the stored points at or above the score threshold
Qualifying == {id \in Searchable : QueryScore(id) >= ContextThreshold}

\* C12: the returned context is made of the text payloads of at most 3
\* points of the default collection, each scoring at least 0.7 against the
\* query, in non-increasing score order, none of them displacing a better
\* scoring point unless the embedding or the search failed, with exactly one
\* blank line between consecutive snippets.
C12_ContextRankedJoined ==
    ctx.pc = "done" =>
        LET h == ctx.hits
            shown == SelectSeq(h, LAMBDA r : r.payload.text # <<>>)
            n == Len(shown)
        IN  /\ Len(h) <= MaxSnippets
            /\ \A i \in 1..Len(h) :
                  /\ h[i].id \in Qualifying
                  /\ h[i].score = QueryScore(h[i].id)
                  /\ h[i].payload = store[DefaultCollection].points[h[i].id].payload
            /\ \A i, j \in 1..Len(h) : i < j =>
                  /\ h[i].id # h[j].id
                  /\ h[i].score >= h[j].score
            /\ \A id \in Qualifying : (\A i \in 1..Len(h) : h[i].id # id) =>
                  \/ ctx.failed # "none"
                  \/ /\ Len(h) = MaxSnippets
                     /\ \A i \in 1..Len(h) : h[i].score >= QueryScore(id)
            /\ Len(ctx.ret) = IF n = 0 THEN 0 ELSE 3 * n - 2
            /\ \A k \in 1..n :
                  /\ ctx.ret[3 * k - 2] = shown[k].payload.text[1]
                  /\ k < n => ctx.ret[3 * k - 1] = NL /\ ctx.ret[3 * k] = NL

\* four stored points clear the threshold: the three best are returned,
\* best first, separated by blank lines
C12_Witness ==
    /\ ctx.pc = "done"
    /\ Cardinality(Qualifying) >= 4
    /\ <<"id", "f">> \in Searchable
    /\ ctx.ret = <<"c", NL, NL, "a", NL, NL, "b">>

\* C13: when the searched collection holds no vectors, or no stored vector
\* reaches the score threshold, the call ends with the empty string and
\* without an exception.
C13_EmptyContextNotError ==
    (ctx.pc = "done" /\ Qualifying = {}) =>
        /\ ctx.ret = <<>>
        /\ ~ctx.raised

\* an existing collection without points, searched without any failure
C13_Witness ==
    /\ ctx.pc = "done"
    /\ epc = "returned"
    /\ store[DefaultCollection].exists
    /\ store[DefaultCollection].size = LocalDefaultDim
    /\ store[DefaultCollection].points = <<>>
    /\ ctx.ret = <<>>

(***************************************************************************)
(* Store failure properties                                                *)
(***************************************************************************)
\* C14: create_collection, add_vectors and search_vectors each issue one
\* store call; when that call fails the operation returns false (create,
\* add) or the empty list (search) and the store is as it was before.
C14_FailureSurfacedOnce ==
    vop.op \in {"create_collection", "add_vectors", "search_vectors"} =>
        /\ vop.store_calls = 1
        /\ vop.failed =>
              /\ store = vop.before
              /\ vop.op \in {"create_collection", "add_vectors"} => vop.ret = FALSE
              /\ vop.op = "search_vectors" => vop.ret = <<>>
        /\ (~vop.failed /\ vop.op \in {"create_collection", "add_vectors"}) =>
              vop.ret = TRUE

\* an upsert into an existing collection fails although the points fit it
C14_Witness ==
    /\ vop.op = "add_vectors"
    /\ vop.failed
    /\ Len(vop.sent) >= 1
    /\ StoreUpsert(store, vop.name, vop.sent).ok
    /\ vop.ret = FALSE

(***************************************************************************)
(* Similarity ranking properties                                           *)
(***************************************************************************)
\* the score of candidate number i (counted from 0) against the query
CandidateScore(i) ==
    LET c == sim.candidates[i + 1]
    IN  IF c.dim # sim.query.dim \/ c.text = "0" THEN 0
        ELSE CosinePct(sim.query.text, c.text)

\* candidate i ranks before candidate j: a higher score, or the same score
\* and an earlier place among the candidates
RanksBefore(i, j) ==
    \/ CandidateScore(i) > CandidateScore(j)
    \/ CandidateScore(i) = CandidateScore(j) /\ i < j

\* C15: find_most_similar returns min(top_k, number of candidates) pairs
\* (index, score), each carrying the score of the candidate it names, in
\* non-increasing score order with equal scores in candidate order, and no
\* candidate left out ranks before a returned one.
C15_StableTopK ==
    sim.op = "find_most_similar" =>
        LET r == sim.ret
            n == Len(sim.candidates)
            named == {r[k][1] : k \in 1..Len(r)}
        IN  /\ Len(r) = Min(sim.top_k, n)
            /\ Len(r) <= sim.top_k
            /\ \A k \in 1..Len(r) :
                  /\ r[k][1] \in 0..(n - 1)
                  /\ r[k][2] = CandidateScore(r[k][1])
            /\ \A k, m \in 1..Len(r) : k < m =>
                  /\ r[k][2] >= r[m][2]
                  /\ RanksBefore(r[k][1], r[m][1])
            /\ \A i \in (0..(n - 1)) \ named :
                  \A k \in 1..Len(r) : RanksBefore(r[k][1], i)

\* three candidates, the first and the last scoring the same and best, top 2
C15_Witness ==
    /\ sim.op = "find_most_similar"
    /\ Len(sim.candidates) = 3
    /\ sim.top_k = 2
    /\ CandidateScore(0) = CandidateScore(2)
    /\ CandidateScore(1) < CandidateScore(0)
    /\ sim.ret = <<<<0, CandidateScore(0)>>, <<2, CandidateScore(2)>>>>

C16_WitnessNoFiles ==
    \E k \in 1..Len(runs) :
        /\ files = <<>>
        /\ runs[k].enumerated
        /\ runs[k].ret

(***************************************************************************)
(* Chunk sizes                                                             *)
(***************************************************************************)
\* the chunks are blocks of 50 lines, the last one holding what remains
BlockLayout(lines) ==
    /\ Len(chunks) = (Len(lines) + MaxChunkLines - 1) \div MaxChunkLines
    /\ \A k \in 1..Len(chunks) :
          /\ chunks[k].start_line = MaxChunkLines * (k - 1) + 1
          /\ chunks[k].end_line = Min(MaxChunkLines * k, Len(lines))

HasDefinitionLine(lines) ==
    \E i \in 1..Len(lines) :
        \/ StartsWith(Strip(lines[i]), DefPrefix)
        \/ StartsWith(Strip(lines[i]), ClassPrefix)

\* C17 as stated: whatever the content, its chunks are blocks of exactly 50
\* lines followed by one final chunk with the remaining lines.
C17_FixedBlocks ==
    cpc = "chunked" => \A lines \in {SplitLines(content)} : BlockLayout(lines)

\* C17 amended: content none of whose lines opens a def or class definition
\* is cut in blocks of exactly 50 lines followed by one final chunk with the
\* remaining lines; 60 such lines give lines 1-50 and lines 51-60.
C17_FixedBlocksWithoutDefinitions ==
    cpc = "chunked" =>
        \A lines \in {SplitLines(content)} :
            ~HasDefinitionLine(lines) =>
                /\ BlockLayout(lines)
                /\ Len(lines) = 60 =>
                      /\ Len(chunks) = 2
                      /\ <<chunks[1].start_line, chunks[1].end_line>> = <<1, 50>>
                      /\ <<chunks[2].start_line, chunks[2].end_line>> = <<51, 60>>

\* 60 plain lines chunked
C17_Witness ==
    /\ cpc = "chunked"
    /\ Len(chunks) = 2
    /\ content = JoinLines([j \in 1..60 |-> PlainLine])
    /\ chunks[2].text = JoinLines([j \in 1..10 |-> PlainLine])

\* 101 plain lines chunked: two full blocks and a chunk of one line
C17_WitnessThreeChunks ==
    /\ cpc = "chunked"
    /\ Len(chunks) = 3
    /\ chunks[3].start_line = 2 * MaxChunkLines + 1

(***************************************************************************)
(* Sub-batch scheduling                                                    *)
(***************************************************************************)
\* the number of the sub-batch text i belongs to, counted from 0
SubBatchOf(i) == (i - 1) \div op.batch_size

Started(i) == task[i].state # "new"

ReturnedVectors ==
    IF op.kind = "embed_text" THEN {result}
    ELSE {result[k] : k \in 1..Len(result)}

\* C19: every vector embed_text or embed_texts returns for a strategy flag
\* and a model has the length get_embedding_dimension gives for that flag
\* and model, also when it was produced after the Remote call failed (stated
\* for calls whose flag selects a strategy that is configured).
C19_DimensionFixedPerStrategy ==
    (/\ epc = "returned"
     /\ op.kind \in {"embed_text", "embed_texts"}
     /\ op.use_openai => openai_client) =>
        \A v \in ReturnedVectors :
            v.dim = get_embedding_dimension(op.use_openai, op.model)

(***************************************************************************)
(* Dimension check before upsert                                           *)
(***************************************************************************)
\* the points of the last add_vectors call whose vector has another length
\* than the collection was created with
Mismatching ==
    {k \in 1..Len(vop.sent) :
        vop.sent[k].vector.dim # vop.before[vop.name].size}

\* C20: add_vectors validates the dimension before the upsert, so that no
\* store call is issued for points one of which has another length than the
\* existing target collection was created with.
C20_DimensionValidatedBeforeUpsert ==
    (/\ vop.op = "add_vectors"
     /\ vop.before[vop.name].exists
     /\ Mismatching # {}) => vop.store_calls = 0

(***************************************************************************)
(* Remote calls in flight                                                  *)
(***************************************************************************)
\* the texts whose Remote provider call was issued and has not completed
InFlight == {i \in DOMAIN task : task[i].state = "remote"}

\* C21: while embed_texts runs, at most batch_size Remote provider calls are
\* in flight, whatever the number of texts and the order of completions.
C21_InFlightBounded ==
    op.kind = "embed_texts" => Cardinality(InFlight) <= op.batch_size

\* 3 texts in sub-batches of 2: both calls of the first sub-batch in flight
C21_Witness ==
    /\ op.kind = "embed_texts"
    /\ epc = "gathering"
    /\ Len(op.texts) = 3
    /\ op.batch_size = 2
    /\ InFlight = {1, 2}

(***************************************************************************)
(* Order of the steps of an indexing run                                   *)
(***************************************************************************)
Positions(tr, e) == {k \in 1..Len(tr) : tr[k].ev = e}

\* the calls of a finished run: every file is opened, then one
\* ensure_collection for project_{projectId} with the embedding dimension,
\* then as last call one add_vectors with everything accumulated
OrderedRun(run) ==
    LET tr == run.trace
        n == Len(tr)
    IN  /\ n >= 3
        /\ tr[1].ev = "start"
        /\ Positions(tr, "ensure_collection") = {n - 1}
        /\ tr[n - 1].at = <<ProjectCollection(ProjectId), LocalDefaultDim>>
        /\ Positions(tr, "add_vectors") = {n}
        /\ tr[n].at = <<ProjectCollection(ProjectId), run.vectors, run.payloads>>
        /\ {tr[k].at : k \in Positions(tr, "open")} = 1..Len(files)
        /\ Cardinality(Positions(tr, "embedded")) = Len(run.vectors)
        /\ run.before = tr[1].at
        /\ run.upserts = 1

\* while a run is under way the points of the collection are those it found
NothingWrittenYet ==
    ipc # "idle" => store[ProjectCollection(ProjectId)].points = trace[1].at

\* C22 as stated: every index_project run processes all files, then calls
\* ensure_collection once, then add_vectors exactly once with everything
\* accumulated, and writes no point before.
C22_StepOrderInEveryRun ==
    /\ NothingWrittenYet
    /\ \A k \in 1..Len(runs) : OrderedRun(runs[k])

\* C22 amended: every run whose file enumeration did not raise makes its
\* calls in that order and writes no point before its add_vectors call; a
\* run whose enumeration raised calls neither ensure_collection nor
\* add_vectors and writes nothing.
C22_StepOrderAfterEnumeration ==
    /\ NothingWrittenYet
    /\ \A k \in 1..Len(runs) :
          /\ runs[k].enumerated => OrderedRun(runs[k])
          /\ ~runs[k].enumerated =>
                /\ runs[k].trace = <<>>
                /\ runs[k].after = runs[k].before

\* a second run over two files: both are opened and embedded before the one
\* ensure_collection and the one add_vectors, the first run's points untouched
C22_Witness ==
    /\ Len(runs) = 2
    /\ Len(files) = 2
    /\ runs[2].before # <<>>
    /\ Len(runs[2].vectors) = 3
    /\ runs[2].ret
    /\ OrderedRun(runs[2])

(***************************************************************************)
(* The closing rule of the chunker                                         *)
(***************************************************************************)
OpensDefinition(line) ==
    StartsWith(Strip(line), DefPrefix) \/ StartsWith(Strip(line), ClassPrefix)

\* the closing condition at line i of a chunk that started at line start
ClosesAt(lines, start, i) ==
    \/ i - start + 1 = 50
    \/ OpensDefinition(lines[i]) /\ i - start + 1 > 10

ChunkSize(k) == chunks[k].end_line - chunks[k].start_line + 1

\* C23: a chunk is closed at a line exactly when the buffer then holds 50
\* lines, or the line opens a definition and the buffer holds more than 10;
\* so no chunk has more than 50 lines, every chunk but the last has at least
\* 11, and what is buffered at the end becomes the last chunk whatever its size.
C23_ClosingRule ==
    cpc = "chunked" =>
        \A lines \in {SplitLines(content)} :
            /\ chunks[Len(chunks)].end_line = Len(lines)
            /\ \A k \in 1..Len(chunks) :
                  /\ ChunkSize(k) <= 50
                  /\ k < Len(chunks) => ChunkSize(k) >= 11
                  /\ k < Len(chunks) =>
                        ClosesAt(lines, chunks[k].start_line, chunks[k].end_line)
                  /\ \A i \in chunks[k].start_line..(chunks[k].end_line - 1) :
                        ~ClosesAt(lines, chunks[k].start_line, i)

\* a definition on line 11 closes the first chunk, the one line left is flushed
C23_Witness ==
    /\ cpc = "chunked"
    /\ Len(chunks) = 2
    /\ <<chunks[1].start_line, chunks[1].end_line>> = <<1, 11>>
    /\ <<chunks[2].start_line, chunks[2].end_line>> = <<12, 12>>
    /\ OpensDefinition(SplitLines(content)[11])

(***************************************************************************)
(* Which definition lines close a chunk                                    *)
(***************************************************************************)
\* a def/class line that does not start in the first column
IndentedDefinition(line) ==
    /\ OpensDefinition(line)
    /\ ~(StartsWith(line, DefPrefix) \/ StartsWith(line, ClassPrefix))

\* C24: the definition rule fires only for top-level definitions: no chunk
\* of fewer than 50 lines is closed by an indented def/class line.
C24_OnlyTopLevelDefinitionsClose ==
    cpc = "chunked" =>
        \A lines \in {SplitLines(content)} :
            \A k \in 1..(Len(chunks) - 1) :
                ChunkSize(k) < 50 => ~IndentedDefinition(lines[chunks[k].end_line])

(***************************************************************************)
(* The batch handed to the upsert of index_project                         *)
(***************************************************************************)
BatchPayloadsOf(f) == SelectSeq(payloads, LAMBDA p : p.file_path = FilePath(f))

\* the payloads of the first n chunks of file f
ChunkPayloads(f, n) ==
    LET cks == _chunk_code(files[f].content)
    IN  [k \in 1..n |-> ChunkPayload(ProjectId, f, cks[k])]

ChunkCount(f) == IF files[f].readable THEN Len(_chunk_code(files[f].content)) ELSE 0

\* how many chunks of file f had been embedded when the run left the file
EmbeddedOf(f) ==
    Cardinality({k \in 1..Len(trace) :
                    trace[k].ev = "embedded" /\ trace[k].at[1] = f})

\* C25: at the upsert, vectors and payloads have the same length, the i-th
\* vector was embedded from the i-th payload's text, the entries are in
\* file-then-chunk order, a file that was not skipped contributes all its
\* chunks and a file interrupted by an embedding failure contributes the
\* chunks before the failure and none after it.
C25_BatchAligned ==
    ipc = "upsert" =>
        /\ Len(vectors) = Len(payloads)
        /\ \A i \in 1..Len(payloads) : vectors[i].text = payloads[i].text
        /\ \A i, j \in 1..Len(payloads) :
              i < j =>
                  \/ payloads[i].file_path[2] < payloads[j].file_path[2]
                  \/ /\ payloads[i].file_path = payloads[j].file_path
                     /\ payloads[i].start_line < payloads[j].start_line
        /\ \A f \in 1..Len(files) :
              \E n \in 0..ChunkCount(f) :
                  /\ BatchPayloadsOf(f) = ChunkPayloads(f, n)
                  /\ n = EmbeddedOf(f)
                  /\ f \notin skipped => n = ChunkCount(f)
                  /\ f \in skipped => n < ChunkCount(f) \/ ~files[f].readable

\* the second chunk of a two-chunk file failed to embed: its first chunk is
\* in the batch, followed by the chunks of the next file
C25_Witness ==
    /\ ipc = "upsert"
    /\ Len(files) = 2
    /\ 1 \in skipped
    /\ ChunkCount(1) = 2
    /\ Len(BatchPayloadsOf(1)) = 1
    /\ Len(BatchPayloadsOf(2)) >= 1
    /\ Len(vectors) = Len(BatchPayloadsOf(1)) + Len(BatchPayloadsOf(2))

(***************************************************************************)
(* The collections index_project touches                                   *)
(***************************************************************************)
\* C26: index_project creates and writes only project_{projectId}: no step
\* changes the default collection code_embeddings, every change of the store
\* is a step of index_project on its own collection, and what
\* _get_relevant_context finds for a query is the same after the step as
\* before it.
C26_IndexLeavesContextAlone ==
    [][/\ store'[DefaultCollection] = store[DefaultCollection]
       /\ \A name \in Collections :
             store'[name] # store[name] =>
                 /\ name = <<"project_", ProjectId>>
                 /\ ipc \in {"ensure_create", "upsert"}
       /\ \A q \in Queries, fault \in BOOLEAN :
             ContextHits(store', LocalVec(q), fault)
                 = ContextHits(store, LocalVec(q), fault)]_vars

\* a run has written its chunks, and a retrieval that follows it is about to
\* search a default collection that holds matching snippets
C26_Witness ==
    /\ Len(runs) >= 1
    /\ runs[1].stored
    /\ runs[1].after # runs[1].before
    /\ ctx.pc = "embed"
    /\ epc = "returned"
    /\ ContextHits(store, result, FALSE) # {<<>>}

(***************************************************************************)
(* Where the definition line ends up                                       *)
(***************************************************************************)
\* C27: a def/class line that closes a chunk is the last line of that chunk,
\* and the next chunk starts with the line after it; a chunk closed before
\* it held 50 lines ends with the def/class line that closed it.
C27_DefinitionLineEndsChunk ==
    cpc = "chunked" =>
        \A lines \in {SplitLines(content)} :
            \A k \in 1..Len(chunks) :
              /\ (k < Len(chunks) /\ ChunkSize(k) < 50) =>
                    \A own \in {SplitLines(chunks[k].text)} :
                        /\ OpensDefinition(own[Len(own)])
                        /\ own[Len(own)] = lines[chunks[k].end_line]
              /\ \A i \in chunks[k].start_line..chunks[k].end_line :
                    (OpensDefinition(lines[i]) /\ i - chunks[k].start_line + 1 > 10) =>
                        \A own \in {SplitLines(chunks[k].text)} :
                            /\ chunks[k].end_line = i
                            /\ own[Len(own)] = lines[i]
                            /\ i < Len(lines) =>
                                  /\ k < Len(chunks)
                                  /\ chunks[k + 1].start_line = i + 1
                                  /\ Head(SplitLines(chunks[k + 1].text)) = lines[i + 1]

\* a definition line closed a chunk of 12 to 49 lines and more lines follow
C27_Witness ==
    /\ cpc = "chunked"
    /\ \E k \in 1..(Len(chunks) - 1) :
          /\ ChunkSize(k) \in 12..49
          /\ OpensDefinition(SplitLines(content)[chunks[k].end_line])
          /\ chunks[k + 1].start_line = chunks[k].end_line + 1
          /\ ChunkSize(k + 1) >= 2

(***************************************************************************)
(* Lists of different lengths handed to add_vectors                        *)
(***************************************************************************)
Smallest(S) == CHOOSE n \in S : \A m \in S : n <= m

\* the number of points an add_vectors call is to send
PointCount(v) ==
    IF v.ids = <<>>
    THEN Smallest({Len(v.vectors), Len(v.payloads)})
    ELSE Smallest({Len(v.ids), Len(v.vectors), Len(v.payloads)})

\* C30: add_vectors sends min(|ids|, |vectors|, |payloads|) points (without
\* ids: one fresh id per vector, so min(|vectors|, |payloads|) points), the
\* i-th pairing ids[i], vectors[i] and payloads[i]; surplus items are dropped
\* without an error, and the call returns true when the store accepts.
C30_ShortestListDecides ==
    vop.op = "add_vectors" =>
        /\ Len(vop.sent) = PointCount(vop)
        /\ \A k \in 1..Len(vop.sent) :
              /\ vop.sent[k].vector = vop.vectors[k]
              /\ vop.sent[k].payload = vop.payloads[k]
              /\ vop.ids # <<>> => vop.sent[k].id = vop.ids[k]
              /\ vop.ids = <<>> =>
                    /\ vop.sent[k].id \notin DOMAIN vop.before[vop.name].points
                    /\ \A m \in 1..Len(vop.sent) :
                          m # k => vop.sent[m].id # vop.sent[k].id
        /\ ~vop.failed => vop.ret
        /\ vop.ret =>
              \A k \in 1..Len(vop.sent) :
                  /\ vop.sent[k].id \in DOMAIN store[vop.name].points
                  /\ store[vop.name].points[vop.sent[k].id].vector = vop.sent[k].vector

\* two vectors with one payload: one point is stored and true is returned
C30_Witness ==
    /\ vop.op = "add_vectors"
    /\ vop.ret
    /\ Len(vop.vectors) = 2
    /\ Len(vop.payloads) = 1
    /\ Len(vop.sent) = 1
    /\ Cardinality(DOMAIN store[vop.name].points)
          = Cardinality(DOMAIN vop.before[vop.name].points) + 1

(***************************************************************************)
(* WebSocket connections                                                   *)
(***************************************************************************)
ClientsOf(items) == {i[1] : i \in items}

\* C28: broadcast attempts delivery to every client registered when it
\* started and ends by removing exactly the clients whose send failed,
\* whatever other tasks do while a send is awaited; its iteration over the
\* connection map never meets a modified map.
C28_BroadcastCompletes ==
    /\ bc.pc # "raised"
    /\ bc.pc = "done" =>
          /\ ClientsOf(bc.started) \subseteq ClientsOf(bc.attempted)
          /\ bc.removed = bc.failed

\* the socket connect() registered last under client_id
LatestAccepted(client_id) ==
    LET own == SelectSeq(accepted, LAMBDA s : conn[s].client_id = client_id)
    IN  IF own = <<>> THEN 0 ELSE own[Len(own)]

\* C29: active_connections maps each client_id to its most recently accepted
\* socket that has not disconnected: while that socket is open and its
\* handler runs, it is registered and send_personal_message reaches it, also
\* after the handler of an older socket of the same client_id saw its
\* disconnect.
C29_NewestConnectionRegistered ==
    \A client_id \in ClientIds :
        \A s \in {LatestAccepted(client_id)} :
            (s # 0 /\ conn[s].pc = "receive" /\ conn[s].alive) =>
                /\ DictHas(active_connections, client_id)
                /\ DictGet(active_connections, client_id) = s
                /\ send_personal_message(active_connections, client_id).to = s

====
